---- MODULE Spec2Model ----
(***************************************************************************)
(* State-machine model of frametap: the FrameTap facade (frametap.cpp)     *)
(* driving one streaming backend (X11, Wayland or Windows), one caller     *)
(* thread and the producer threads the backend spawns.  The instance is    *)
(* constructed for monitor/region capture (capture_window_ = false).       *)
(* Rectangles carry integer coordinates; an image is its width, height and *)
(* the length of its byte array.                                           *)
(* ThreadSafeQueue (include/frametap/queue.h) is modelled beside it, with  *)
(* its own threads; a behaviour exercises either the capture side or the   *)
(* queue.  The helpers of util/color.h and the backend factory are called  *)
(* on their own (SpecUtil), and the X error handling of the X11 entry      *)
(* points is modelled as a process of its own (SpecXlib), as are the       *)
(* ScreenCast portal handshake of wl_portal.h (SpecPortal) and the sample  *)
(* handler of the macOS backend (SpecMac).                                 *)
(***************************************************************************)
EXTENDS Integers, Sequences, FiniteSets, TLC

\* ------------------------------------------------------------------------
\* Bounds
\* ------------------------------------------------------------------------
ScreenW == 3
ScreenH == 2
MaxClock == 1
SizeBits == 12
NThreads == 3
MaxPush == 3
MaxDim == 3
MaxPixels == 2

\* ------------------------------------------------------------------------
\* Values
\* ------------------------------------------------------------------------
Rect(x, y, w, h) == [x |-> x, y |-> y, width |-> w, height |-> h]

RUnset == Rect(0, 0, 0, 0)
RInside == Rect(1, 0, ScreenW - 1, ScreenH)
RNegative == Rect(-1, -1, ScreenW, ScreenH)
ROvershoot == Rect(1, 1, ScreenW, ScreenH)
ROffscreen == Rect(ScreenW + 1, 0, 1, 1)

\* The rectangles a caller passes to the constructor and to set_region.
Regions == {RUnset, RNegative, ROffscreen}

\* The rectangles a caller passes to screenshot().
ShotRegions == {RUnset, RInside, RNegative, ROvershoot, ROffscreen}

Slots == {1, 2}
LoopIds == {1, 2}

SIZE_MAX == 2 ^ SizeBits - 1
Throw == -1

\* int is half as wide as size_t.
IntBits == SizeBits \div 2
INT_MAX == 2 ^ (IntBits - 1) - 1
INT_MIN == -(2 ^ (IntBits - 1))

\* A rectangle whose width * height * 4 exceeds SIZE_MAX.
RHuge == Rect(0, 0, SIZE_MAX \div 4 + 1, 1)

\* static_cast<int>(d) of a double d without a fraction: d when int can
\* hold it; otherwise the conversion is undefined, and the builds in use
\* give the "integer indefinite" value INT_MIN or saturate.
to_int(d) ==
  IF INT_MIN <= d /\ d <= INT_MAX THEN {d} ELSE {INT_MIN, INT_MAX}

\* The four conversions of a Rect's fields.
IntRects(r) ==
  {Rect(x, y, w, h) : x \in to_int(r.x), y \in to_int(r.y),
                      w \in to_int(r.width), h \in to_int(r.height)}

EmptyImage == [width |-> 0, height |-> 0, len |-> 0]
NoShm == [attached |-> FALSE, w |-> 0, h |-> 0]
NoThread == [pc |-> "none", stop |-> FALSE, last |-> 0, now |-> 0, dur |-> 0,
             img |-> EmptyImage, crop |-> RUnset, regs |-> {}, loop |-> 0,
             cbreg |-> FALSE, first |-> TRUE, buf |-> "none",
             dup |-> "none"]
NewThread == [NoThread EXCEPT !.pc = "entry"]

\* shot.r is the rectangle the call captured (its argument, or region_ when
\* the argument is unset); valid is FALSE until a call has returned an image.
NoShot == [valid |-> FALSE, r |-> RUnset, img |-> EmptyImage]

Min(a, b) == IF a < b THEN a ELSE b
OtherSlot(s) == 3 - s

\* A size computation that forgets the four bytes per pixel.
checked_rgba_size_unscaled(width, height) == width * height

\* A size computation in size_t arithmetic without the two checks: the
\* product wraps around.
checked_rgba_size_wrapping(width, height) ==
  (width * height * 4) % (SIZE_MAX + 1)

\* util/safe_alloc.h: width * height * 4, 0 for an empty image, Throw when
\* either multiplication would exceed SIZE_MAX.
checked_rgba_size(width, height) ==
  IF width = 0 \/ height = 0 THEN 0
  ELSE IF width > SIZE_MAX \div height THEN Throw
  ELSE IF width * height > SIZE_MAX \div 4 THEN Throw
  ELSE width * height * 4

\* ImageData result; result.width = w; result.height = h;
\* result.data.resize(checked_rgba_size(w, h))
MakeImage(w, h) ==
  [width |-> w, height |-> h, len |-> checked_rgba_size(w, h)]

\* A screenshot function returning an image it sized with
\* checked_rgba_size: the CaptureError of the size computation leaves it.
Sized(img) ==
  IF img.len = Throw THEN [threw |-> TRUE, img |-> EmptyImage]
  ELSE [threw |-> FALSE, img |-> img]

\* The clamp of X11Backend::compute_capture_area for root capture; c is
\* region_ converted to int.
compute_capture_area(r, c) ==
  LET set == r.width > 0 /\ r.height > 0
      x0 == IF set THEN c.x ELSE 0
      y0 == IF set THEN c.y ELSE 0
      w0 == IF set THEN c.width ELSE ScreenW
      h0 == IF set THEN c.height ELSE ScreenH
      w1 == IF x0 < 0 THEN w0 + x0 ELSE w0
      x1 == IF x0 < 0 THEN 0 ELSE x0
      h1 == IF y0 < 0 THEN h0 + y0 ELSE h0
      y1 == IF y0 < 0 THEN 0 ELSE y0
      w2 == IF x1 + w1 > ScreenW THEN ScreenW - x1 ELSE w1
      h2 == IF y1 + h1 > ScreenH THEN ScreenH - y1 ELSE h1
  IN [x |-> x1, y |-> y1, w |-> w2, h |-> h2]

\* The region crop of WaylandBackend::on_process applied to a converted
\* frame of w x h pixels.
wl_crop(w, h, r) ==
  IF r.width > 0 /\ r.height > 0
  THEN LET rw1 == IF r.x < 0 THEN r.width + r.x ELSE r.width
           rx == IF r.x < 0 THEN 0 ELSE r.x
           rh1 == IF r.y < 0 THEN r.height + r.y ELSE r.height
           ry == IF r.y < 0 THEN 0 ELSE r.y
           rw == IF rx + rw1 > w THEN w - rx ELSE rw1
           rh == IF ry + rh1 > h THEN h - ry ELSE rh1
       IN IF rx >= 0 /\ ry >= 0 /\ rw > 0 /\ rh > 0
             /\ (rw # w \/ rh # h \/ rx # 0 \/ ry # 0)
          THEN MakeImage(rw, rh)
          ELSE MakeImage(w, h)
  ELSE MakeImage(w, h)

\* The clamp of WindowsBackend::dxgi_capture_loop on the rectangle the loop
\* read from region_ after it found it set: the output size (out_w, out_h).
win_crop(r) ==
  LET w1 == IF r.x < 0 THEN r.width + r.x ELSE r.width
      x1 == IF r.x < 0 THEN 0 ELSE r.x
      h1 == IF r.y < 0 THEN r.height + r.y ELSE r.height
      y1 == IF r.y < 0 THEN 0 ELSE r.y
  IN [w |-> IF x1 + w1 > ScreenW THEN ScreenW - x1 ELSE w1,
      h |-> IF y1 + h1 > ScreenH THEN ScreenH - y1 ELSE h1]

\* The crop of dxgi_monitor_screenshot: the output size (out_w, out_h); c
\* is the region converted to int.
dxgi_shot_crop(r, c) ==
  IF r.width > 0 /\ r.height > 0
  THEN LET w1 == IF c.x < 0 THEN c.width + c.x ELSE c.width
           x1 == IF c.x < 0 THEN 0 ELSE c.x
           h1 == IF c.y < 0 THEN c.height + c.y ELSE c.height
           y1 == IF c.y < 0 THEN 0 ELSE c.y
       IN [w |-> IF x1 + w1 > ScreenW THEN ScreenW - x1 ELSE w1,
           h |-> IF y1 + h1 > ScreenH THEN ScreenH - y1 ELSE h1]
  ELSE [w |-> ScreenW, h |-> ScreenH]

\* The clamp of x11_take_screenshot for root capture; c is the region
\* converted to int.
x11_shot_area(r, c) ==
  LET set == r.width > 0 /\ r.height > 0
      x0 == IF set THEN c.x ELSE 0
      y0 == IF set THEN c.y ELSE 0
      w0 == IF set THEN c.width ELSE ScreenW
      h0 == IF set THEN c.height ELSE ScreenH
      w1 == IF x0 < 0 THEN w0 + x0 ELSE w0
      x1 == IF x0 < 0 THEN 0 ELSE x0
      h1 == IF y0 < 0 THEN h0 + y0 ELSE h0
      y1 == IF y0 < 0 THEN 0 ELSE y0
  IN [w |-> IF x1 + w1 > ScreenW THEN ScreenW - x1 ELSE w1,
      h |-> IF y1 + h1 > ScreenH THEN ScreenH - y1 ELSE h1]

\* x11_take_screenshot: res is "nodisplay" when XOpenDisplay fails,
\* "noimage" when neither XShmGetImage nor XGetImage returns an image.
x11_take_screenshot(r, c, res) ==
  LET a == x11_shot_area(r, c) IN
  IF res = "nodisplay" THEN [threw |-> TRUE, img |-> EmptyImage]
  ELSE IF a.w <= 0 \/ a.h <= 0 THEN [threw |-> FALSE, img |-> EmptyImage]
  ELSE IF res = "noimage" THEN [threw |-> TRUE, img |-> EmptyImage]
  ELSE Sized(MakeImage(a.w, a.h))

\* The region crop of WaylandBackend::screenshot on the w x h frame; c is
\* the region converted to int.
wl_shot_crop(w, h, r, c) ==
  IF r.width > 0 /\ r.height > 0
  THEN LET rw1 == IF c.x < 0 THEN c.width + c.x ELSE c.width
           rx == IF c.x < 0 THEN 0 ELSE c.x
           rh1 == IF c.y < 0 THEN c.height + c.y ELSE c.height
           ry == IF c.y < 0 THEN 0 ELSE c.y
           rw == IF rx + rw1 > w THEN w - rx ELSE rw1
           rh == IF ry + rh1 > h THEN h - ry ELSE rh1
       IN IF rx >= 0 /\ ry >= 0 /\ rw > 0 /\ rh > 0
          THEN MakeImage(rw, rh)
          ELSE MakeImage(w, h)
  ELSE MakeImage(w, h)

\* WaylandBackend::screenshot after the portal session is open: res is
\* "connect" when dup or pw_context_connect_fd fails, "timeout" when the
\* five-second timer ends the loop before a frame with data arrived.
wl_screenshot(r, c, res) ==
  IF res = "connect" THEN [threw |-> TRUE, img |-> EmptyImage]
  ELSE IF res = "timeout" THEN [threw |-> FALSE, img |-> EmptyImage]
  ELSE Sized(wl_shot_crop(ScreenW, ScreenH, r, c))

\* dxgi_monitor_screenshot: ok is whether duplication, AcquireNextFrame and
\* Map all succeeded.
dxgi_monitor_screenshot(r, c, ok) ==
  LET out == dxgi_shot_crop(r, c) IN
  IF ok /\ out.w > 0 /\ out.h > 0 THEN MakeImage(out.w, out.h)
  ELSE EmptyImage

\* gdi_screenshot: ok is whether BitBlt succeeded.
gdi_screenshot(width, height, ok) ==
  IF width <= 0 \/ height <= 0 THEN EmptyImage
  ELSE IF ~ok THEN EmptyImage
  ELSE MakeImage(width, height)

\* windows_screenshot_monitor: DXGI first, then GDI with the region as
\* given; c is the region converted to int.
windows_screenshot_monitor(r, c, dxgi_ok, blt_ok) ==
  LET result == dxgi_monitor_screenshot(r, c, dxgi_ok) IN
  IF result.width > 0 /\ result.height > 0
  THEN Sized(result)
  ELSE IF c.width <= 0 \/ c.height <= 0
       THEN Sized(gdi_screenshot(ScreenW, ScreenH, blt_ok))
       ELSE Sized(gdi_screenshot(c.width, c.height, blt_ok))

VARIABLES
  backend,         \* which Backend the factory built
  ft_callback,     \* FrameTap::Impl::callback is non-empty
  ft_started,      \* FrameTap::Impl::started
  threw,           \* the facade call that raised CaptureError last:
                   \* "none", "start" or "screenshot"
  shot,            \* what the last screenshot() call returned
  c_pc,            \* position of the caller thread inside a facade call
  c_arg,           \* the Rect a running set_region call is storing
  be_callback,     \* the backend's callback_ is non-empty
  cur,             \* slot of the thread the jthread member owns, 0 = none
  th,              \* producer threads: slot -> locals and position
  paused,          \* paused_
  region,          \* region_
  clock,           \* steady_clock
  cap,             \* X11 cap_x_, cap_y_, cap_w_, cap_h_
  use_shm,         \* X11 use_shm_
  shm,             \* X11 shm_attached_ and the size of shm_image_
  pw_loop,         \* Wayland pw_loop_: 0 = nullptr, else the loop object
  loop_run,        \* the running flag of each pw_main_loop object
  last_frame_time, \* Wayland last_frame_time_
  portal_open,     \* Wayland portal_open_
  fmt_set,         \* Wayland frame_width_/frame_height_ were negotiated
  mutex,           \* Windows mutex_: 0 = free, -1 = caller, else the slot
  pause_cbs,       \* callbacks since pause() returned; -1 outside a pause
  stop_returned    \* stop() calls returned since the last start(), at most 2

\* ThreadSafeQueue<T> and the threads that call it.
VARIABLES
  deque_,          \* deque_
  closed_,         \* closed_
  cv_,             \* the threads blocked in a wait on cv_
  qth,             \* per calling thread: position, call, result
  q_next,          \* the next value a push() will be given
  pushed,          \* history: the values push() stored, in order
  popped,          \* history: the values the pop family returned, in order
  at_close         \* history: what had been returned when close() first ran

qv == <<deque_, closed_, cv_, qth, q_next, pushed, popped, at_close>>

\* The helper functions of util/color.h and the backend factory, called on
\* their own.
VARIABLES
  util,            \* the helper being called: its arguments and its result
  xlib             \* the process as Xlib sees it: the error handler in
                   \* effect, the once-flags, the thread-local error slots

utilv == <<util, xlib>>

vars == <<backend, ft_callback, ft_started, threw, shot, c_pc, c_arg, be_callback,
          cur, th, paused, region, clock, cap, use_shm, shm, pw_loop,
          loop_run, last_frame_time, portal_open, fmt_set, mutex, pause_cbs,
          stop_returned, qv, utilv>>

ftv == <<ft_callback, ft_started>>
callerv == <<ft_callback, ft_started, threw, c_pc, c_arg, cur, stop_returned>>
bev == <<be_callback, paused, region>>
x11v == <<cap, use_shm, shm>>
wlv == <<pw_loop, loop_run, last_frame_time, portal_open, fmt_set>>

\* ------------------------------------------------------------------------
\* Construction
\* ------------------------------------------------------------------------
\* The threads that call a ThreadSafeQueue; T{} for the queue's value type
\* and an empty std::optional.
QThreads == 1 .. NThreads
Default == 0
nullopt == <<>>

QIdle == [pc |-> "idle", op |-> "none", expired |-> FALSE, ret |-> nullopt]

\* No helper is being called on its own.
NoCall == [fn |-> "none"]

\* The threads that issue X requests: the one that calls the library, and
\* the one that runs capture_loop.
XThreads == {"caller", "stream"}

\* A process that has not called into Xlib: Xlib's default error handler,
\* which prints the error and exits, is in effect; the once-flags are
\* unset and the thread-local slots hold 0.  be is the X11Backend that
\* exists ("none", or what it targets), op and out the last library call
\* and how it ended, missing whether the window it addressed was absent,
\* raised whether Xlib dispatched an X error during it, noted whether the
\* slot the call checks held the error afterwards, bare whether a request
\* was ever issued under the default handler.
XIdle ==
  [handler |-> "default", installed |-> FALSE, err_installed |-> FALSE,
   g_x11_error_code |-> [t \in XThreads |-> 0],
   g_code |-> [t \in XThreads |-> 0],
   alive |-> TRUE, be |-> "none", op |-> "none", out |-> "none",
   missing |-> FALSE, raised |-> FALSE, noted |-> FALSE, bare |-> FALSE]

NoUtil == util = NoCall /\ xlib = XIdle

\* ThreadSafeQueue(): the members' initializers.
QueueInit ==
  /\ deque_ = <<>>
  /\ closed_ = FALSE
  /\ cv_ = {}
  /\ qth = [t \in QThreads |-> QIdle]
  /\ q_next = 1
  /\ pushed = <<>>
  /\ popped = <<>>
  /\ at_close = <<>>

\* FrameTap::FrameTap(), FrameTap::FrameTap(Rect)
InitFacade ==
  /\ ft_callback = FALSE
  /\ ft_started = FALSE
  /\ threw = "none"
  /\ shot = NoShot
  /\ c_pc = "idle"
  /\ c_arg = RUnset
  /\ clock = 0
  /\ pause_cbs = -1
  /\ stop_returned = 0

\* The members every backend declares.
InitBackend ==
  /\ be_callback = FALSE
  /\ cur = 0
  /\ th = [s \in Slots |-> NoThread]
  /\ paused = FALSE
  /\ region \in Regions

\* X11Backend::X11Backend -> open_display(): probes the shared-memory
\* extension and computes the capture area.
InitX11 ==
  /\ QueueInit /\ NoUtil
  /\ backend = "x11"
  /\ InitFacade /\ InitBackend
  /\ cap \in {compute_capture_area(region, c) : c \in IntRects(region)}
  /\ use_shm \in BOOLEAN
  /\ shm = NoShm
  /\ pw_loop = 0 /\ loop_run = [l \in LoopIds |-> FALSE]
  /\ last_frame_time = 0 /\ portal_open = FALSE /\ fmt_set = FALSE
  /\ mutex = 0

\* WaylandBackend::WaylandBackend
InitWayland ==
  /\ QueueInit /\ NoUtil
  /\ backend = "wayland"
  /\ InitFacade /\ InitBackend
  /\ pw_loop = 0 /\ loop_run = [l \in LoopIds |-> FALSE]
  /\ last_frame_time = 0 /\ portal_open = FALSE /\ fmt_set = FALSE
  /\ cap = [x |-> 0, y |-> 0, w |-> 0, h |-> 0]
  /\ use_shm = FALSE /\ shm = NoShm
  /\ mutex = 0

\* WindowsBackend::WindowsBackend
InitWindows ==
  /\ QueueInit /\ NoUtil
  /\ backend = "windows"
  /\ InitFacade /\ InitBackend
  /\ mutex = 0
  /\ cap = [x |-> 0, y |-> 0, w |-> 0, h |-> 0]
  /\ use_shm = FALSE /\ shm = NoShm
  /\ pw_loop = 0 /\ loop_run = [l \in LoopIds |-> FALSE]
  /\ last_frame_time = 0 /\ portal_open = FALSE /\ fmt_set = FALSE

Init == InitX11 \/ InitWayland \/ InitWindows

\* The frame thread s passes to the callback when it stands at "deliver".
FrameOf(s) ==
  [width |-> th[s].img.width, height |-> th[s].img.height,
   len |-> th[s].img.len, duration |-> th[s].dur]

\* The frame of one iteration of dxgi_capture_loop: "none" before
\* AcquireNextFrame succeeds, "held" after, "released" after ReleaseFrame;
\* an acquire over a held frame and a release of anything but a held frame
\* are recorded as "double" and "misreleased".
AcquireNextFrame(f) == IF f = "held" THEN "double" ELSE "held"

\* An iteration that ends without giving the frame back.
keep_frame(f) == f

ReleaseFrame(f) == IF f = "held" THEN "released" ELSE "misreleased"

\* callback_(frame): the consumer sees FrameOf(s); the frame and the locals
\* of the iteration die with it and the thread goes on at pc next; on
\* Windows the iteration ends with dxgi.duplication->ReleaseFrame().
\* History only: first is TRUE until the thread's session has delivered a
\* frame.
Deliver(s, next) ==
  /\ th' = [th EXCEPT ![s].pc = next, ![s].img = EmptyImage,
                      ![s].crop = RUnset, ![s].regs = {}, ![s].dur = 0,
                      ![s].now = 0, ![s].first = FALSE,
                      ![s].buf = IF backend = "windows"
                                 THEN ReleaseFrame(@) ELSE @]
  /\ pause_cbs' = IF pause_cbs < 0 THEN pause_cbs ELSE Min(pause_cbs + 1, 2)

\* History only: one more stop() returns.
StopReturns == Min(stop_returned + 1, 2)

\* History only: pause() returns; callbacks are counted from the first
\* pause() that is not followed by a resume().
PauseReturned == IF pause_cbs < 0 THEN 0 ELSE pause_cbs

\* The positions at which a thread holds a frame it is capturing.
Capturing(s) ==
  th[s].pc \in {"stamp", "deliver", "proc_region", "proc_now", "proc_dur",
                "rd_xy", "rd_wh", "read"}

\* History only: regs is the set of regions a frame in the making may
\* legitimately show, the region current when its capture began or, once a
\* set_region call overlapped the capture, any region.
NoteRegion(t, r) ==
  [s \in Slots |-> IF Capturing(s)
                   THEN [t[s] EXCEPT !.regs = Regions]
                   ELSE t[s]]

\* ------------------------------------------------------------------------
\* Thread creation shared by the backends
\* ------------------------------------------------------------------------
NewSlot == IF cur = 0 THEN 1 ELSE OtherSlot(cur)

\* std::jthread construction followed by move assignment to the member: the
\* new thread starts, then a thread the member still owns is asked to stop
\* and joined (FtStartJoin).
SpawnThreadFrom(t) ==
  IF cur = 0
  THEN /\ th' = [t EXCEPT ![NewSlot] = NewThread]
       /\ cur' = NewSlot
       /\ c_pc' = "idle"
       /\ ft_started' = TRUE
  ELSE /\ th' = [t EXCEPT ![NewSlot] = NewThread, ![cur].stop = TRUE]
       /\ cur' = cur
       /\ c_pc' = "start_join"
       /\ ft_started' = ft_started

SpawnThread == SpawnThreadFrom(th)

\* ------------------------------------------------------------------------
\* X11 backend
\* ------------------------------------------------------------------------
\* X11Backend::init_shm: ok is whether XShmCreateImage, shmget and shmat all
\* succeeded.
init_shm(w, h, ok) ==
  IF use_shm /\ ok
  THEN /\ shm' = [attached |-> TRUE, w |-> w, h |-> h]
       /\ use_shm' = TRUE
  ELSE /\ shm' = NoShm
       /\ use_shm' = FALSE

\* X11Backend::cleanup_shm run without state_mutex_: a capture_frame that
\* is copying rows out of shm_image_->data loses the image it reads.
cleanup_shm_unlocked(t) ==
  [s \in Slots |-> IF shm.attached /\ t[s].pc = "read"
                   THEN [t[s] EXCEPT !.buf = "stale"] ELSE t[s]]

\* X11Backend::start; init_shm begins with cleanup_shm.
X11Start(cb) ==
  /\ be_callback' = cb
  /\ threw' = "none"
  /\ \E ok \in BOOLEAN : init_shm(cap.w, cap.h, ok)
  /\ SpawnThreadFrom(cleanup_shm_unlocked(th))
  /\ UNCHANGED <<cap, region, paused, wlv, mutex>>

\* X11Backend::set_region, under state_mutex_ (capture_frame holds the same
\* mutex for a whole capture, so the two never overlap).
X11SetRegion(r) ==
  /\ mutex = 0
  /\ region' = r
  /\ \E c \in IntRects(r) :
       /\ cap' = compute_capture_area(r, c)
       /\ IF shm.attached
          THEN \E ok \in BOOLEAN :
                 init_shm(compute_capture_area(r, c).w,
                          compute_capture_area(r, c).h, ok)
          ELSE UNCHANGED <<shm, use_shm>>
  /\ th' = NoteRegion(th, r)
  /\ UNCHANGED <<c_pc, c_arg, wlv, mutex>>

\* X11Backend::capture_frame: ok is whether the X server answered the image
\* request without a protocol error.
capture_frame(ok) ==
  IF cap.w <= 0 \/ cap.h <= 0 THEN EmptyImage
  ELSE IF ~ok THEN EmptyImage
  ELSE MakeImage(cap.w, cap.h)

\* X11Backend::stop up to the join.
X11Stop ==
  /\ IF cur # 0
     THEN /\ th' = [th EXCEPT ![cur].stop = TRUE]
          /\ c_pc' = "stop_join"
          /\ UNCHANGED <<ft_started, stop_returned>>
     ELSE /\ ft_started' = FALSE
          /\ stop_returned' = StopReturns
          /\ UNCHANGED <<th, c_pc>>
  /\ UNCHANGED <<cur, bev, x11v, wlv, mutex>>

\* X11Backend::capture_loop, one step per access to shared state.
X11LoopEntry(s) ==
  /\ backend = "x11" /\ th[s].pc = "entry"
  /\ th' = [th EXCEPT ![s].last = clock, ![s].pc = "top"]
  /\ UNCHANGED <<qv, utilv, backend, shot, callerv, bev, clock, x11v, wlv, mutex, pause_cbs>>

X11LoopTop(s) ==
  /\ backend = "x11" /\ th[s].pc = "top"
  /\ th' = [th EXCEPT ![s].pc = IF th[s].stop THEN "done" ELSE "chk"]
  /\ UNCHANGED <<qv, utilv, backend, shot, callerv, bev, clock, x11v, wlv, mutex, pause_cbs>>

\* A capture loop that never looks at the pause flag.
X11PausedCheckOff == FALSE

\* paused_.load()
X11PausedCheck == paused

X11LoopPauseCheck(s) ==
  /\ backend = "x11" /\ th[s].pc = "chk"
  /\ th' = [th EXCEPT ![s].pc = IF X11PausedCheck THEN "psleep"
                                ELSE "capture"]
  /\ UNCHANGED <<qv, utilv, backend, shot, callerv, bev, clock, x11v, wlv, mutex, pause_cbs>>

X11LoopPauseSleep(s) ==
  /\ backend = "x11" /\ th[s].pc = "psleep"
  /\ th' = [th EXCEPT ![s].last = clock, ![s].pc = "top"]
  /\ UNCHANGED <<qv, utilv, backend, shot, callerv, bev, clock, x11v, wlv, mutex, pause_cbs>>

\* capture_frame from the lock_guard on state_mutex_ to the answer of the
\* X server.  Through the shared-memory image the rows are still to be
\* copied out of shm_image_->data (X11LoopRead); the XGetImage fallback
\* owns its image and finishes here.
X11LoopCapture(s) ==
  /\ backend = "x11" /\ th[s].pc = "capture"
  /\ mutex = 0
  /\ \E ok \in BOOLEAN :
       LET img == capture_frame(ok) IN
       IF img.len = 0
       THEN /\ th' = [th EXCEPT ![s].pc = "top"]
            /\ mutex' = 0
       ELSE IF use_shm /\ shm.attached
       THEN /\ th' = [th EXCEPT ![s].img = img, ![s].crop = region,
                                ![s].regs = {region}, ![s].buf = "shm",
                                ![s].pc = "read"]
            /\ mutex' = s
       ELSE /\ th' = [th EXCEPT ![s].img = img, ![s].crop = region,
                                ![s].regs = {region}, ![s].pc = "stamp"]
            /\ mutex' = 0
  /\ UNCHANGED <<qv, utilv, backend, shot, callerv, bev, clock, x11v, wlv, pause_cbs>>

\* capture_frame: the row copy out of shm_image_->data, then the return,
\* which unlocks state_mutex_.  Reading an image that has been freed is
\* undefined: the copy yields whatever the memory holds, or the process
\* dies on the access.
X11LoopRead(s) ==
  /\ backend = "x11" /\ th[s].pc = "read"
  /\ mutex' = 0
  /\ \/ /\ th' = [th EXCEPT ![s].buf = "none", ![s].pc = "stamp"]
        /\ c_pc' = c_pc
     \/ /\ th[s].buf = "stale"
        /\ th' = [t \in Slots |->
                   IF th[t].pc = "none" THEN th[t]
                   ELSE [th[t] EXCEPT !.pc = "terminated"]]
        /\ c_pc' = "terminated"
  /\ UNCHANGED <<qv, utilv, backend, shot, ft_callback, ft_started, threw, c_arg, cur,
                 stop_returned, bev, clock, x11v, wlv, pause_cbs>>

X11LoopStamp(s) ==
  /\ backend = "x11" /\ th[s].pc = "stamp"
  /\ th' = [th EXCEPT ![s].dur = clock - th[s].last,
                      ![s].last = clock, ![s].pc = "deliver"]
  /\ UNCHANGED <<qv, utilv, backend, shot, callerv, bev, clock, x11v, wlv, mutex, pause_cbs>>

\* callback_(frame).  Calling an empty std::function throws
\* std::bad_function_call out of the thread function, and std::terminate
\* ends the process with all its threads.
X11LoopDeliver(s) ==
  /\ backend = "x11" /\ th[s].pc = "deliver"
  /\ IF be_callback
     THEN Deliver(s, "top") /\ c_pc' = c_pc
     ELSE /\ th' = [t \in Slots |->
                    IF th[t].pc = "none" THEN th[t]
                    ELSE [th[t] EXCEPT !.pc = "terminated"]]
          /\ c_pc' = "terminated"
          /\ pause_cbs' = pause_cbs
  /\ UNCHANGED <<qv, utilv, backend, shot, ft_callback, ft_started, threw, c_arg, cur,
                 stop_returned, bev, clock, x11v, wlv, mutex>>

\* ------------------------------------------------------------------------
\* Wayland backend
\* ------------------------------------------------------------------------
\* pw_main_loop_new: an object no thread is iterating.
NewLoop == CHOOSE l \in LoopIds : \A s \in Slots : th[s].loop # l

\* pw_main_loop_quit(l): clears the loop's running flag, directly when the
\* loop has not been entered and through the loop's own queue otherwise.
pw_main_loop_quit(run, l) == [run EXCEPT ![l] = FALSE]

\* request_stop() on the thread in slot s: sets the stop state and runs the
\* registered stop callback, `if (pw_loop_) pw_main_loop_quit(pw_loop_)`.
WlRequestStop(s) ==
  /\ th' = [th EXCEPT ![s].stop = TRUE]
  /\ loop_run' = IF th[s].cbreg /\ pw_loop # 0
                 THEN pw_main_loop_quit(loop_run, pw_loop)
                 ELSE loop_run

\* WaylandBackend::start up to the construction of the new thread.  res is
\* the outcome of setup_pipewire: "portal" = the screencast session could
\* not be opened, "stream" = pw_stream_new returned null.
WlStart(cb) ==
  /\ be_callback' = cb
  /\ last_frame_time' = clock
  /\ \E res \in {"ok", "portal", "stream"} :
       /\ res = "portal" => ~portal_open
       /\ portal_open' = (portal_open \/ res # "portal")
       /\ pw_loop' = IF res = "portal" THEN pw_loop ELSE NewLoop
       /\ loop_run' = IF res = "portal" THEN loop_run
                      ELSE [loop_run EXCEPT ![NewLoop] = FALSE]
       /\ threw' = IF res = "ok" THEN "none" ELSE "start"
       /\ IF res = "ok"
          THEN /\ th' = [th EXCEPT ![NewSlot] = NewThread]
               /\ IF cur = 0
                  THEN cur' = NewSlot /\ c_pc' = "idle" /\ ft_started' = TRUE
                  ELSE cur' = cur /\ c_pc' = "start_assign"
                       /\ ft_started' = ft_started
          ELSE UNCHANGED <<th, cur, c_pc, ft_started>>
  /\ UNCHANGED <<paused, region, fmt_set, x11v, mutex>>

\* The move assignment of the new jthread to pw_thread_: request_stop() on
\* the thread the member still owns.
WlStartAssign ==
  /\ backend = "wayland" /\ c_pc = "start_assign"
  /\ WlRequestStop(cur)
  /\ c_pc' = "start_join"
  /\ UNCHANGED <<qv, utilv, backend, shot, ft_callback, ft_started, threw, c_arg, cur,
                 stop_returned, bev, clock, x11v, pw_loop, last_frame_time,
                 portal_open, fmt_set, mutex, pause_cbs>>

\* WaylandBackend::teardown_pipewire
teardown_pipewire ==
  /\ pw_loop' = 0
  /\ UNCHANGED <<loop_run, last_frame_time, portal_open, fmt_set>>

\* WaylandBackend::stop: pw_thread_.request_stop()
WlStop ==
  /\ IF cur # 0
     THEN /\ WlRequestStop(cur)
          /\ c_pc' = "stop_quit"
          /\ UNCHANGED <<ft_started, stop_returned, pw_loop>>
     ELSE /\ pw_loop' = 0
          /\ ft_started' = FALSE
          /\ stop_returned' = StopReturns
          /\ UNCHANGED <<th, c_pc, loop_run>>
  /\ UNCHANGED <<cur, bev, x11v, last_frame_time, portal_open, fmt_set, mutex>>

\* WaylandBackend::stop: if (pw_loop_) pw_main_loop_quit(pw_loop_)
WlStopQuit ==
  /\ backend = "wayland" /\ c_pc = "stop_quit"
  /\ loop_run' = IF pw_loop # 0 THEN pw_main_loop_quit(loop_run, pw_loop)
                 ELSE loop_run
  /\ c_pc' = "stop_join"
  /\ UNCHANGED <<qv, utilv, backend, shot, ft_callback, ft_started, threw, c_arg, cur,
                 stop_returned, bev, th, clock, x11v, pw_loop,
                 last_frame_time, portal_open, fmt_set, mutex, pause_cbs>>

\* WaylandBackend::resume after paused_.store(false): the write of
\* last_frame_time_ under state_mutex_.
WlResumeTime ==
  /\ backend = "wayland" /\ c_pc = "resume_time"
  /\ last_frame_time' = clock
  /\ c_pc' = "idle"
  /\ UNCHANGED <<qv, utilv, backend, shot, ft_callback, ft_started, threw, c_arg, cur,
                 stop_returned, bev, th, clock, x11v, pw_loop, loop_run,
                 portal_open, fmt_set, mutex, pause_cbs>>

\* WaylandBackend::set_region
WlSetRegion(r) ==
  /\ region' = r
  /\ th' = NoteRegion(th, r)
  /\ UNCHANGED <<c_pc, c_arg, x11v, wlv, mutex>>

\* The thread body: construction of the std::stop_callback.  When stop was
\* already requested the callback runs here and is not registered.
WlThreadEntry(s) ==
  /\ backend = "wayland" /\ th[s].pc = "entry"
  /\ th' = [th EXCEPT ![s].cbreg = ~th[s].stop, ![s].pc = "run"]
  /\ loop_run' = IF th[s].stop /\ pw_loop # 0
                 THEN pw_main_loop_quit(loop_run, pw_loop)
                 ELSE loop_run
  /\ UNCHANGED <<qv, utilv, backend, shot, callerv, bev, clock, x11v, pw_loop,
                 last_frame_time, portal_open, fmt_set, mutex, pause_cbs>>

\* pw_main_loop_run(pw_loop_) on entry: sets the running flag of the loop.
WlThreadRun(s) ==
  /\ backend = "wayland" /\ th[s].pc = "run"
  /\ pw_loop # 0
  /\ th' = [th EXCEPT ![s].loop = pw_loop, ![s].pc = "iterate"]
  /\ loop_run' = [loop_run EXCEPT ![pw_loop] = TRUE]
  /\ UNCHANGED <<qv, utilv, backend, shot, callerv, bev, clock, x11v, pw_loop,
                 last_frame_time, portal_open, fmt_set, mutex, pause_cbs>>

\* pw_main_loop_run: `while (running)` found false; the thread function
\* returns and the stop callback is deregistered.
WlLoopExit(s) ==
  /\ backend = "wayland" /\ th[s].pc = "iterate"
  /\ ~loop_run[th[s].loop]
  /\ th' = [th EXCEPT ![s].pc = "done", ![s].cbreg = FALSE]
  /\ UNCHANGED <<qv, utilv, backend, shot, callerv, bev, clock, x11v, wlv, mutex, pause_cbs>>

\* WaylandBackend::on_param_changed with a parsable format.
WlParamChanged(s) ==
  /\ backend = "wayland" /\ th[s].pc = "iterate"
  /\ loop_run[th[s].loop]
  /\ ~fmt_set
  /\ fmt_set' = TRUE
  /\ UNCHANGED <<qv, utilv, backend, shot, callerv, bev, th, clock, x11v, pw_loop, loop_run,
                 last_frame_time, portal_open, mutex, pause_cbs>>

\* The loop dispatches the stream's process event.
WlProcessEvent(s) ==
  /\ backend = "wayland" /\ th[s].pc = "iterate"
  /\ loop_run[th[s].loop]
  /\ th' = [th EXCEPT ![s].pc = "proc", ![s].buf = "none"]
  /\ UNCHANGED <<qv, utilv, backend, shot, callerv, bev, clock, x11v, wlv, mutex, pause_cbs>>

\* paused_.load()
WlPausedCheck == paused

\* The pw_buffer of one on_process invocation: "none" before a dequeue,
\* "held" once dequeued, "requeued" after pw_stream_queue_buffer; a queue
\* call on anything but a held buffer is recorded as "misqueued".
pw_stream_dequeue_buffer(b) == "held"

\* A handler that keeps the buffer instead of giving it back.
keep_buffer(b) == b

pw_stream_queue_buffer(b) == IF b = "held" THEN "requeued" ELSE "misqueued"

\* WaylandBackend::on_process up to the converted full frame.  buf is the
\* outcome of the dequeue: no buffer, a buffer without data, a buffer.
WlProcessBegin(s) ==
  /\ backend = "wayland" /\ th[s].pc = "proc"
  /\ \E buf \in {"null", "nodata", "ok"} :
       th' = IF WlPausedCheck \/ buf = "null"
             THEN [th EXCEPT ![s].pc = "iterate"]
             ELSE IF buf = "nodata" \/ ~fmt_set
             THEN [th EXCEPT ![s].buf = pw_stream_queue_buffer(
                                          pw_stream_dequeue_buffer(@)),
                             ![s].pc = "iterate"]
             ELSE [th EXCEPT ![s].buf = pw_stream_dequeue_buffer(@),
                             ![s].img = MakeImage(ScreenW, ScreenH),
                             ![s].regs = {region}, ![s].pc = "proc_region"]
  /\ UNCHANGED <<qv, utilv, backend, shot, callerv, bev, clock, x11v, wlv, mutex, pause_cbs>>

\* on_process: region_copy = region_ under state_mutex_, then the crop,
\* then pw_stream_queue_buffer.
WlProcessRegion(s) ==
  /\ backend = "wayland" /\ th[s].pc = "proc_region"
  /\ th' = [th EXCEPT ![s].crop = region,
                      ![s].img = wl_crop(ScreenW, ScreenH, region),
                      ![s].buf = pw_stream_queue_buffer(@),
                      ![s].pc = "proc_now"]
  /\ UNCHANGED <<qv, utilv, backend, shot, callerv, bev, clock, x11v, wlv, mutex, pause_cbs>>

\* on_process: auto now = steady_clock::now()
WlProcessNow(s) ==
  /\ backend = "wayland" /\ th[s].pc = "proc_now"
  /\ th' = [th EXCEPT ![s].now = clock, ![s].pc = "proc_dur"]
  /\ UNCHANGED <<qv, utilv, backend, shot, callerv, bev, clock, x11v, wlv, mutex, pause_cbs>>

\* on_process: duration = now - last_frame_time_; last_frame_time_ = now,
\* under state_mutex_.
WlProcessDuration(s) ==
  /\ backend = "wayland" /\ th[s].pc = "proc_dur"
  /\ th' = [th EXCEPT ![s].dur = th[s].now - last_frame_time,
                      ![s].pc = "deliver"]
  /\ last_frame_time' = th[s].now
  /\ UNCHANGED <<qv, utilv, backend, shot, callerv, bev, clock, x11v, pw_loop, loop_run,
                 portal_open, fmt_set, mutex, pause_cbs>>

\* on_process: if (callback_) callback_(frame)
WlProcessDeliver(s) ==
  /\ backend = "wayland" /\ th[s].pc = "deliver"
  /\ IF be_callback
     THEN Deliver(s, "iterate")
     ELSE /\ th' = [th EXCEPT ![s].pc = "iterate", ![s].img = EmptyImage,
                              ![s].crop = RUnset, ![s].regs = {},
                              ![s].dur = 0, ![s].now = 0]
          /\ pause_cbs' = pause_cbs
  /\ UNCHANGED <<qv, utilv, backend, shot, callerv, bev, clock, x11v, wlv, mutex>>

\* ------------------------------------------------------------------------
\* Windows backend (DXGI monitor streaming)
\* ------------------------------------------------------------------------
\* WindowsBackend::start: with an empty callback it returns before the
\* thread is created.
WinStart(cb) ==
  /\ be_callback' = cb
  /\ threw' = "none"
  /\ IF cb
     THEN SpawnThread
     ELSE ft_started' = TRUE /\ UNCHANGED <<th, cur, c_pc>>
  /\ UNCHANGED <<paused, region, x11v, wlv, mutex>>

\* WindowsBackend::stop up to the join.
WinStop ==
  /\ IF cur # 0
     THEN /\ th' = [th EXCEPT ![cur].stop = TRUE]
          /\ c_pc' = "stop_join"
          /\ UNCHANGED <<ft_started, stop_returned>>
     ELSE /\ ft_started' = FALSE
          /\ stop_returned' = StopReturns
          /\ UNCHANGED <<th, c_pc>>
  /\ UNCHANGED <<cur, bev, x11v, wlv, mutex>>

\* WindowsBackend::pause once the lock_guard has mutex_.
WinPauseLock ==
  /\ backend = "windows" /\ c_pc = "pause_wait"
  /\ mutex = 0
  /\ paused' = TRUE
  /\ pause_cbs' = PauseReturned
  /\ c_pc' = "idle"
  /\ UNCHANGED <<qv, utilv, backend, shot, ft_callback, ft_started, threw, c_arg, cur,
                 stop_returned, be_callback, region, th, clock, x11v, wlv,
                 mutex>>

\* WindowsBackend::resume once the lock_guard has mutex_.
WinResumeLock ==
  /\ backend = "windows" /\ c_pc = "resume_wait"
  /\ mutex = 0
  /\ paused' = FALSE
  /\ c_pc' = "idle"
  /\ UNCHANGED <<qv, utilv, backend, shot, ft_callback, ft_started, threw, c_arg, cur,
                 stop_returned, be_callback, region, th, clock, x11v, wlv,
                 mutex, pause_cbs>>

\* WindowsBackend::set_region, `region_ = region` with no lock: the store of
\* the four fields begins; until WinWriteDone a concurrent reader may find
\* any field already stored or not yet stored.
WinSetRegion(r) ==
  /\ c_arg' = r
  /\ c_pc' = "wr"
  /\ region' = region
  /\ th' = NoteRegion(th, r)
  /\ UNCHANGED <<x11v, wlv, mutex>>

\* The last field of region_ is stored and set_region returns.
WinWriteDone ==
  /\ backend = "windows" /\ c_pc = "wr"
  /\ region' = c_arg
  /\ c_pc' = "idle"
  /\ c_arg' = RUnset
  /\ UNCHANGED <<qv, utilv, backend, shot, ft_callback, ft_started, threw, cur,
                 stop_returned, be_callback, paused, th, clock, x11v, wlv,
                 mutex, pause_cbs>>

\* An unsynchronised read of one field of region_: the stored value, or
\* the value a set_region call in progress is storing.
WinReadField(f) ==
  IF c_pc = "wr" THEN {region[f], c_arg[f]} ELSE {region[f]}

\* dxgi_capture_loop: DxgiState::init succeeded; last_time = now.
WinLoopEntry(s) ==
  /\ backend = "windows" /\ th[s].pc = "entry"
  /\ th' = [th EXCEPT ![s].last = clock, ![s].dup = "ready",
                      ![s].pc = "top"]
  /\ UNCHANGED <<qv, utilv, backend, shot, callerv, bev, clock, x11v, wlv, mutex, pause_cbs>>

\* `while (!token.stop_requested())`: the frame of the last iteration is
\* history.
WinLoopTop(s) ==
  /\ backend = "windows" /\ th[s].pc = "top"
  /\ th' = [th EXCEPT ![s].pc = IF th[s].stop THEN "done" ELSE "lock",
                      ![s].buf = IF @ = "released" THEN "none" ELSE @]
  /\ UNCHANGED <<qv, utilv, backend, shot, callerv, bev, clock, x11v, wlv, mutex, pause_cbs>>

\* `if (paused_)` under the lock_guard
WinPausedCheck == paused

\* std::lock_guard lock(mutex_) at the top of an iteration: when paused the
\* thread keeps the mutex over the sleep, otherwise the block ends here.
WinLoopLock(s) ==
  /\ backend = "windows" /\ th[s].pc = "lock"
  /\ mutex = 0
  /\ IF WinPausedCheck
     THEN /\ mutex' = s
          /\ th' = [th EXCEPT ![s].pc = "psleep"]
     ELSE /\ mutex' = 0
          /\ th' = [th EXCEPT ![s].pc = "acquire"]
  /\ UNCHANGED <<qv, utilv, backend, shot, callerv, bev, clock, x11v, wlv, pause_cbs>>

\* sleep_for(16 ms) is over; `continue` leaves the block and unlocks.
WinLoopPauseSleep(s) ==
  /\ backend = "windows" /\ th[s].pc = "psleep"
  /\ mutex' = 0
  /\ th' = [th EXCEPT ![s].pc = "top"]
  /\ UNCHANGED <<qv, utilv, backend, shot, callerv, bev, clock, x11v, wlv, pause_cbs>>

\* AcquireNextFrame up to Map.  hr: "skip" = timeout or another failure,
\* no frame acquired; "nonew" = no new pixels; "noquery" = QueryInterface
\* failed; "nomap" = Map failed; "lost" = DXGI_ERROR_ACCESS_LOST; "ok".
WinLoopAcquire(s) ==
  /\ backend = "windows" /\ th[s].pc = "acquire"
  /\ \E hr \in {"skip", "nonew", "noquery", "nomap", "lost", "ok"} :
       th' = CASE hr = "ok" ->
                    [th EXCEPT ![s].buf = AcquireNextFrame(@),
                               ![s].pc = "rd_guard"]
               [] hr = "lost" ->
                    [th EXCEPT ![s].dup = "lost", ![s].pc = "reinit"]
               [] hr = "skip" -> [th EXCEPT ![s].pc = "top"]
               [] OTHER ->
                    [th EXCEPT ![s].buf = ReleaseFrame(AcquireNextFrame(@)),
                               ![s].pc = "top"]
  /\ UNCHANGED <<qv, utilv, backend, shot, callerv, bev, clock, x11v, wlv, mutex, pause_cbs>>

\* dxgi.release(); dxgi.init(monitor_index_)
reinit(d, ok) == IF ok THEN "ready" ELSE "none"

\* The access-lost branch: `if (!dxgi.init(monitor_index_)) return;`
WinLoopReinit(s) ==
  /\ backend = "windows" /\ th[s].pc = "reinit"
  /\ \E ok \in BOOLEAN :
       th' = [th EXCEPT ![s].dup = reinit(@, ok),
                        ![s].pc = IF reinit(th[s].dup, ok) = "ready"
                                  THEN "top" ELSE "done"]
  /\ UNCHANGED <<qv, utilv, backend, shot, callerv, bev, clock, x11v, wlv, mutex, pause_cbs>>

\* `if (region_.width > 0 && region_.height > 0)`
WinLoopReadGuard(s) ==
  /\ backend = "windows" /\ th[s].pc = "rd_guard"
  /\ \E w \in WinReadField("width"), h \in WinReadField("height") :
       th' = IF w > 0 /\ h > 0
             THEN [th EXCEPT ![s].regs = {region}, ![s].pc = "rd_xy"]
             ELSE [th EXCEPT ![s].regs = {region},
                             ![s].crop = RUnset,
                             ![s].img = MakeImage(ScreenW, ScreenH),
                             ![s].pc = "stamp"]
  /\ UNCHANGED <<qv, utilv, backend, shot, callerv, bev, clock, x11v, wlv, mutex, pause_cbs>>

\* src_x = region_.x; src_y = region_.y
WinLoopReadXY(s) ==
  /\ backend = "windows" /\ th[s].pc = "rd_xy"
  /\ \E x \in WinReadField("x"), y \in WinReadField("y") :
       th' = [th EXCEPT ![s].crop = Rect(x, y, 0, 0), ![s].pc = "rd_wh"]
  /\ UNCHANGED <<qv, utilv, backend, shot, callerv, bev, clock, x11v, wlv, mutex, pause_cbs>>

\* out_w = region_.width; out_h = region_.height; the clamp; the skip of an
\* empty output; the allocation and the row copy.
WinLoopReadWH(s) ==
  /\ backend = "windows" /\ th[s].pc = "rd_wh"
  /\ \E w \in WinReadField("width"), h \in WinReadField("height") :
       LET r == Rect(th[s].crop.x, th[s].crop.y, w, h)
           out == win_crop(r)
       IN th' = IF out.w <= 0 \/ out.h <= 0
                THEN [th EXCEPT ![s].crop = RUnset, ![s].regs = {},
                                ![s].buf = ReleaseFrame(@),
                                ![s].pc = "top"]
                ELSE [th EXCEPT ![s].crop = r,
                                ![s].img = MakeImage(out.w, out.h),
                                ![s].pc = "stamp"]
  /\ UNCHANGED <<qv, utilv, backend, shot, callerv, bev, clock, x11v, wlv, mutex, pause_cbs>>

WinLoopStamp(s) ==
  /\ backend = "windows" /\ th[s].pc = "stamp"
  /\ th' = [th EXCEPT ![s].dur = clock - th[s].last,
                      ![s].last = clock, ![s].pc = "deliver"]
  /\ UNCHANGED <<qv, utilv, backend, shot, callerv, bev, clock, x11v, wlv, mutex, pause_cbs>>

WinLoopDeliver(s) ==
  /\ backend = "windows" /\ th[s].pc = "deliver"
  /\ Deliver(s, "top")
  /\ UNCHANGED <<qv, utilv, backend, shot, callerv, bev, clock, x11v, wlv, mutex>>

\* ------------------------------------------------------------------------
\* Facade (FrameTap) calls made by the caller thread
\* ------------------------------------------------------------------------
BackendStart(cb) ==
  CASE backend = "x11" -> X11Start(cb)
    [] backend = "wayland" -> WlStart(cb)
    [] backend = "windows" -> WinStart(cb)

\* Backend::start(cb) called on the backend interface itself, as the
\* facade calls it but with a callback that may be empty.
BeStart(cb) ==
  /\ c_pc = "idle"
  /\ shot' = NoShot
  /\ stop_returned' = 0
  /\ BackendStart(cb)
  /\ UNCHANGED <<qv, utilv, backend, ft_callback, c_arg, clock, pause_cbs>>

\* A start that forwards to the backend without looking at the callback.
StartCallUnchecked ==
  /\ shot' = NoShot
  /\ stop_returned' = 0
  /\ BackendStart(ft_callback)
  /\ UNCHANGED <<qv, utilv, backend, ft_callback, c_arg, clock, pause_cbs>>

\* The body FrameTap::start and FrameTap::start_async share.
StartCall ==
  /\ shot' = NoShot
  /\ IF ~ft_callback
     THEN /\ threw' = "start"
          /\ UNCHANGED <<ft_started, c_pc, cur, stop_returned, bev, th, x11v,
                         wlv, mutex>>
     ELSE /\ stop_returned' = 0
          /\ BackendStart(ft_callback)
  /\ UNCHANGED <<qv, utilv, backend, ft_callback, c_arg, clock, pause_cbs>>

\* FrameTap::start
FtStart ==
  /\ c_pc = "idle"
  /\ StartCall

\* FrameTap::start_async
FtStartAsync ==
  /\ c_pc = "idle"
  /\ StartCall

\* The join inside the jthread move assignment of start(), then the return
\* to FrameTap::start, which sets started.
FtStartJoin ==
  /\ c_pc = "start_join"
  /\ th[cur].pc = "done"
  /\ th' = [th EXCEPT ![cur] = NoThread]
  /\ cur' = OtherSlot(cur)
  /\ ft_started' = TRUE
  /\ c_pc' = "idle"
  /\ UNCHANGED <<qv, utilv, backend, shot, ft_callback, threw, c_arg, stop_returned, bev,
                 clock, x11v, wlv, mutex, pause_cbs>>

BackendStop ==
  CASE backend = "x11" -> X11Stop
    [] backend = "wayland" -> WlStop
    [] backend = "windows" -> WinStop

\* Backend::stop called on the backend interface itself.
BeStop ==
  /\ shot' = NoShot
  /\ c_pc = "idle"
  /\ threw' = "none"
  /\ BackendStop
  /\ UNCHANGED <<qv, utilv, backend, ft_callback, c_arg, clock, pause_cbs>>

\* A stop() that treats a stop on an instance that is not started as an
\* error.
FtStopStrict ==
  /\ shot' = NoShot
  /\ c_pc = "idle"
  /\ IF ft_started
     THEN threw' = "none" /\ BackendStop
     ELSE /\ threw' = "stop"
          /\ stop_returned' = StopReturns
          /\ UNCHANGED <<ft_started, c_pc, cur, th, bev, x11v, wlv, mutex>>
  /\ UNCHANGED <<qv, utilv, backend, ft_callback, c_arg, clock, pause_cbs>>

\* FrameTap::stop
FtStop ==
  /\ shot' = NoShot
  /\ c_pc = "idle"
  /\ threw' = "none"
  /\ IF ft_started
     THEN BackendStop
     ELSE /\ stop_returned' = StopReturns
          /\ UNCHANGED <<ft_started, c_pc, cur, th, bev, x11v, wlv, mutex>>
  /\ UNCHANGED <<qv, utilv, backend, ft_callback, c_arg, clock, pause_cbs>>

\* A stop() that returns without waiting for the producer thread.
StopJoinDetached ==
  /\ c_pc = "stop_join"
  /\ th' = th
  /\ cur' = 0
  /\ ft_started' = FALSE
  /\ stop_returned' = StopReturns
  /\ c_pc' = "idle"

\* The join of the producer thread in the backend's stop(), then the return
\* to FrameTap::stop, which clears started.
StopJoin ==
  /\ c_pc = "stop_join"
  /\ th[cur].pc = "done"
  /\ th' = [th EXCEPT ![cur] = NoThread]
  /\ cur' = 0
  /\ ft_started' = FALSE
  /\ stop_returned' = StopReturns
  /\ c_pc' = "idle"

FtStopJoin ==
  /\ StopJoin
  /\ IF backend = "wayland" THEN teardown_pipewire ELSE UNCHANGED wlv
  /\ UNCHANGED <<qv, utilv, backend, shot, ft_callback, threw, c_arg, bev, clock, x11v, mutex,
                 pause_cbs>>

\* What the backend destructors release after their stop(): cleanup_shm()
\* and XCloseDisplay on X11, teardown_pipewire() and
\* close_screencast_session on Wayland.
ReleaseHandles ==
  /\ shm' = NoShm
  /\ pw_loop' = 0
  /\ portal_open' = FALSE

\* FrameTap::~FrameTap destroys the backend, whose destructor calls the
\* backend's stop() whatever the started flag says: request_stop() on a
\* producer thread the member owns, else straight on to the releases.
FtDestroy ==
  /\ c_pc = "idle"
  /\ shot' = NoShot
  /\ IF cur # 0
     THEN /\ IF backend = "wayland"
             THEN WlRequestStop(cur) /\ c_pc' = "dtor_quit"
             ELSE /\ th' = [th EXCEPT ![cur].stop = TRUE]
                  /\ loop_run' = loop_run
                  /\ c_pc' = "dtor_join"
          /\ UNCHANGED <<shm, pw_loop, portal_open>>
     ELSE /\ ReleaseHandles
          /\ c_pc' = "gone"
          /\ UNCHANGED <<th, loop_run>>
  /\ UNCHANGED <<qv, utilv, backend, ft_callback, ft_started, threw, c_arg, cur,
                 stop_returned, bev, clock, cap, use_shm, last_frame_time,
                 fmt_set, mutex, pause_cbs>>

\* WaylandBackend::stop inside the destructor:
\* if (pw_loop_) pw_main_loop_quit(pw_loop_)
DtorQuit ==
  /\ backend = "wayland" /\ c_pc = "dtor_quit"
  /\ loop_run' = IF pw_loop # 0 THEN pw_main_loop_quit(loop_run, pw_loop)
                 ELSE loop_run
  /\ c_pc' = "dtor_join"
  /\ UNCHANGED <<qv, utilv, backend, shot, ft_callback, ft_started, threw, c_arg, cur,
                 stop_returned, bev, th, clock, x11v, pw_loop,
                 last_frame_time, portal_open, fmt_set, mutex, pause_cbs>>

\* The join of the producer thread inside the destructor's stop(), then the
\* releases; the destructor returns and the instance is gone.
DtorJoin ==
  /\ c_pc = "dtor_join"
  /\ th[cur].pc = "done"
  /\ th' = [th EXCEPT ![cur] = NoThread]
  /\ cur' = 0
  /\ ReleaseHandles
  /\ c_pc' = "gone"
  /\ UNCHANGED <<qv, utilv, backend, shot, ft_callback, ft_started, threw, c_arg,
                 stop_returned, bev, clock, cap, use_shm, loop_run,
                 last_frame_time, fmt_set, mutex, pause_cbs>>

\* FrameTap::pause -> Backend::pause
FtPause ==
  /\ shot' = NoShot
  /\ c_pc = "idle"
  /\ threw' = "none"
  /\ IF backend = "windows"
     THEN c_pc' = "pause_wait" /\ UNCHANGED <<paused, pause_cbs>>
     ELSE paused' = TRUE /\ pause_cbs' = PauseReturned /\ c_pc' = c_pc
  /\ UNCHANGED <<qv, utilv, backend, ftv, c_arg, cur, stop_returned, be_callback,
                 region, th, clock, x11v, wlv, mutex>>

\* FrameTap::resume -> Backend::resume
FtResume ==
  /\ shot' = NoShot
  /\ c_pc = "idle"
  /\ threw' = "none"
  /\ pause_cbs' = -1
  /\ CASE backend = "x11" -> paused' = FALSE /\ c_pc' = c_pc
       [] backend = "wayland" -> paused' = FALSE /\ c_pc' = "resume_time"
       [] backend = "windows" -> paused' = paused /\ c_pc' = "resume_wait"
  /\ UNCHANGED <<qv, utilv, backend, ftv, c_arg, cur, stop_returned, be_callback,
                 region, th, clock, x11v, wlv, mutex>>

\* FrameTap::set_region -> Backend::set_region
FtSetRegion(r) ==
  /\ shot' = NoShot
  /\ c_pc = "idle"
  /\ threw' = "none"
  /\ CASE backend = "x11" -> X11SetRegion(r)
       [] backend = "wayland" -> WlSetRegion(r)
       [] backend = "windows" -> WinSetRegion(r)
  /\ UNCHANGED <<qv, utilv, backend, ftv, cur, stop_returned, be_callback, paused,
                 clock, pause_cbs>>

\* FrameTap::on_frame; cb is whether the std::function holds a target.
FtOnFrame(cb) ==
  /\ shot' = NoShot
  /\ c_pc = "idle"
  /\ threw' = "none"
  /\ ft_callback' = cb
  /\ UNCHANGED <<qv, utilv, backend, ft_started, c_pc, c_arg, cur, stop_returned, bev,
                 th, clock, x11v, wlv, mutex, pause_cbs>>

\* X11Backend::screenshot on the effective rectangle: every result the
\* environment allows.
X11Screenshot(eff) ==
  {[threw |-> x11_take_screenshot(eff, c, res).threw,
    img |-> x11_take_screenshot(eff, c, res).img,
    portal |-> portal_open] :
     c \in IntRects(eff), res \in {"ok", "nodisplay", "noimage"}}

\* WaylandBackend::screenshot: open_screencast_session throws when the user
\* denies the request, and is skipped when the session is already open.
WlScreenshot(eff) ==
  (IF portal_open THEN {}
   ELSE {[threw |-> TRUE, img |-> EmptyImage, portal |-> FALSE]})
  \cup {[threw |-> wl_screenshot(eff, c, res).threw,
         img |-> wl_screenshot(eff, c, res).img,
         portal |-> TRUE] :
          c \in IntRects(eff), res \in {"ok", "connect", "timeout"}}

\* WindowsBackend::screenshot for monitor capture.
WinScreenshot(eff) ==
  {[threw |-> windows_screenshot_monitor(eff, c, d, g).threw,
    img |-> windows_screenshot_monitor(eff, c, d, g).img,
    portal |-> portal_open] :
     c \in IntRects(eff), d \in BOOLEAN, g \in BOOLEAN}

BackendScreenshot(eff) ==
  CASE backend = "x11" -> X11Screenshot(eff)
    [] backend = "wayland" -> WlScreenshot(eff)
    [] backend = "windows" -> WinScreenshot(eff)

\* FrameTap::screenshot -> Backend::screenshot.  A screenshot opens its own
\* connection and shares nothing with a running stream but region_; the
\* model takes screenshots while no producer thread exists.
FtScreenshot(r) ==
  /\ c_pc = "idle"
  /\ cur = 0
  /\ LET eff == IF r.width > 0 /\ r.height > 0 THEN r ELSE region IN
     \E out \in BackendScreenshot(eff) :
       /\ threw' = IF out.threw THEN "screenshot" ELSE "none"
       /\ shot' = [valid |-> ~out.threw, r |-> eff, img |-> out.img]
       /\ portal_open' = out.portal
  /\ UNCHANGED <<qv, utilv, backend, ftv, c_pc, c_arg, cur, stop_returned, bev, th,
                 clock, x11v, pw_loop, loop_run, last_frame_time, fmt_set,
                 mutex, pause_cbs>>

\* steady_clock advances.
Tick ==
  /\ clock < MaxClock
  /\ clock' = clock + 1
  /\ UNCHANGED <<qv, utilv, backend, shot, callerv, bev, th, x11v, wlv, mutex, pause_cbs>>

\* ------------------------------------------------------------------------
\* Next-state relations
\* ------------------------------------------------------------------------
FacadeStep ==
  \/ FtStart
  \/ FtStartAsync
  \/ FtStartJoin
  \/ FtStop
  \/ FtStopJoin
  \/ FtDestroy
  \/ DtorJoin
  \/ FtPause
  \/ FtResume
  \/ \E r \in Regions : FtSetRegion(r)
  \/ \E cb \in BOOLEAN : FtOnFrame(cb)
  \/ \E r \in ShotRegions : FtScreenshot(r)
  \/ Tick

X11Thread(s) ==
  \/ X11LoopEntry(s)
  \/ X11LoopTop(s)
  \/ X11LoopPauseCheck(s)
  \/ X11LoopPauseSleep(s)
  \/ X11LoopCapture(s)
  \/ X11LoopRead(s)
  \/ X11LoopStamp(s)
  \/ X11LoopDeliver(s)

WlCaller ==
  \/ WlStartAssign
  \/ WlStopQuit
  \/ DtorQuit
  \/ WlResumeTime

WlThread(s) ==
  \/ WlThreadEntry(s)
  \/ WlThreadRun(s)
  \/ WlLoopExit(s)
  \/ WlParamChanged(s)
  \/ WlProcessEvent(s)
  \/ WlProcessBegin(s)
  \/ WlProcessRegion(s)
  \/ WlProcessNow(s)
  \/ WlProcessDuration(s)
  \/ WlProcessDeliver(s)

WinCaller ==
  \/ WinPauseLock
  \/ WinResumeLock
  \/ WinWriteDone

WinThread(s) ==
  \/ WinLoopEntry(s)
  \/ WinLoopTop(s)
  \/ WinLoopLock(s)
  \/ WinLoopPauseSleep(s)
  \/ WinLoopAcquire(s)
  \/ WinLoopReinit(s)
  \/ WinLoopReadGuard(s)
  \/ WinLoopReadXY(s)
  \/ WinLoopReadWH(s)
  \/ WinLoopStamp(s)
  \/ WinLoopDeliver(s)

NextX11 == FacadeStep \/ \E s \in Slots : X11Thread(s)

NextWl == FacadeStep \/ WlCaller \/ \E s \in Slots : WlThread(s)

NextWin == FacadeStep \/ WinCaller \/ \E s \in Slots : WinThread(s)

Next ==
  \/ FacadeStep
  \/ \E s \in Slots : X11Thread(s)
  \/ WlCaller
  \/ \E s \in Slots : WlThread(s)
  \/ WinCaller
  \/ \E s \in Slots : WinThread(s)

Spec == Init /\ [][Next]_vars

SpecX11 == InitX11 /\ [][NextX11]_vars

SpecWl == InitWayland /\ [][NextWl]_vars

SpecWin == InitWindows /\ [][NextWin]_vars

\* Scheduling: a call that has been issued goes on once it can go on for
\* good, and every producer thread that can take a step eventually takes
\* one (weak fairness).  std::mutex hands a released mutex to whichever
\* thread locks first and gives a waiting thread no turn, so a step that is
\* enabled only now and then is promised nothing.
CallerContinues ==
  \/ FtStartJoin
  \/ FtStopJoin
  \/ DtorJoin

\* The calls of the Backend interface, made on the backend directly.
BackendStep ==
  \/ \E cb \in BOOLEAN : BeStart(cb)
  \/ FtStartJoin
  \/ BeStop
  \/ FtStopJoin
  \/ FtDestroy
  \/ DtorJoin
  \/ FtPause
  \/ FtResume
  \/ \E r \in Regions : FtSetRegion(r)
  \/ \E r \in ShotRegions : FtScreenshot(r)
  \/ Tick

NextBackend ==
  \/ BackendStep
  \/ \E s \in Slots : X11Thread(s)
  \/ WlCaller
  \/ \E s \in Slots : WlThread(s)
  \/ WinCaller
  \/ \E s \in Slots : WinThread(s)

SpecBackend == Init /\ [][NextBackend]_vars

FairSpecX11 ==
  /\ SpecX11
  /\ WF_vars(CallerContinues)
  /\ \A s \in Slots : WF_vars(X11Thread(s))

FairSpecWl ==
  /\ SpecWl
  /\ WF_vars(CallerContinues)
  /\ WF_vars(WlCaller)
  /\ \A s \in Slots : WF_vars(WlThread(s))

FairSpecWin ==
  /\ SpecWin
  /\ WF_vars(CallerContinues)
  /\ WF_vars(WinCaller)
  /\ \A s \in Slots : WF_vars(WinThread(s))

\* ------------------------------------------------------------------------
\* ThreadSafeQueue<T> (include/frametap/queue.h)
\* ------------------------------------------------------------------------
\* Every member function does its work on deque_ and closed_ inside one
\* critical section of mutex_, and no thread blocks while it holds mutex_
\* (a wait on cv_ releases it), so a critical section is one step.  The
\* values pushed are 1, 2, ...; T{} is Default.  A returned std::optional is
\* a sequence of at most one value, and the T that pop() returns is kept the
\* same way.
\* The capture variables, which no queue call touches.
capturev == <<backend, ft_callback, ft_started, threw, shot, c_pc, c_arg,
              be_callback, cur, th, paused, region, clock, cap, use_shm, shm,
              pw_loop, loop_run, last_frame_time, portal_open, fmt_set,
              mutex, pause_cbs, stop_returned>>

\* No FrameTap has been constructed.
NoCapture ==
  /\ backend = "none"
  /\ InitFacade
  /\ be_callback = FALSE /\ cur = 0 /\ th = [s \in Slots |-> NoThread]
  /\ paused = FALSE /\ region = RUnset
  /\ cap = [x |-> 0, y |-> 0, w |-> 0, h |-> 0]
  /\ use_shm = FALSE /\ shm = NoShm
  /\ pw_loop = 0 /\ loop_run = [l \in LoopIds |-> FALSE]
  /\ last_frame_time = 0 /\ portal_open = FALSE /\ fmt_set = FALSE
  /\ mutex = 0

\* A program that uses the queue and no FrameTap.
InitQueue == QueueInit /\ NoUtil /\ NoCapture

\* deque_.push_front(value): the other end of the deque.
push_front(d, v) == <<v>> \o d

\* deque_.push_back(std::move(value))
push_back(d, v) == Append(d, v)

\* A pop that leaves the front element in the deque.
front_kept(d) == d

\* deque_.pop_front()
pop_front(d) == Tail(d)

\* A push that does not look at closed_.
PushAcceptsAlways == TRUE

\* push: if (closed_) return;
PushAccepts == ~closed_

\* The predicate of the waits in pop() and pop(timeout).
WaitPred == deque_ # <<>> \/ closed_

\* The call of thread t returns r; q is qth with the call entered.
QReturn(q, t, r) == [q EXCEPT ![t] = [QIdle EXCEPT !.ret = r]]

\* pop() and pop(timeout) from the point where thread t holds mutex_ and
\* evaluates the predicate, on entry and after every wake-up: wait again,
\* or give up when the timeout has expired, or return the front element, or
\* return T{} / std::nullopt when the queue is closed and empty.
QPopBody(q, t, op, expired) ==
  IF WaitPred
  THEN IF deque_ = <<>>
       THEN /\ qth' = QReturn(q, t, IF op = "pop" THEN <<Default>> ELSE nullopt)
            /\ UNCHANGED <<deque_, popped, cv_>>
       ELSE /\ qth' = QReturn(q, t, <<Head(deque_)>>)
            /\ deque_' = pop_front(deque_)
            /\ popped' = Append(popped, Head(deque_))
            /\ cv_' = cv_
  ELSE IF expired
       THEN /\ qth' = QReturn(q, t, nullopt)
            /\ UNCHANGED <<deque_, popped, cv_>>
       ELSE /\ qth' = [q EXCEPT ![t].pc = "wait"]
            /\ cv_' = cv_ \cup {t}
            /\ UNCHANGED <<deque_, popped>>

\* Thread t begins call op.
QCall(t, op) == [qth EXCEPT ![t] = [QIdle EXCEPT !.op = op]]

\* push(value) up to the unlock.
QPush(t) ==
  /\ qth[t].pc = "idle"
  /\ q_next <= MaxPush
  /\ q_next' = q_next + 1
  /\ IF PushAccepts
     THEN /\ deque_' = push_back(deque_, q_next)
          /\ pushed' = Append(pushed, q_next)
          /\ qth' = [QCall(t, "push") EXCEPT ![t].pc = "push_notify"]
     ELSE /\ qth' = QReturn(qth, t, nullopt)
          /\ UNCHANGED <<deque_, pushed>>
  /\ UNCHANGED <<closed_, cv_, popped, at_close, capturev, utilv>>

\* A push that returns without cv_.notify_one().
QPushNoNotify(t) ==
  /\ qth[t].pc = "push_notify"
  /\ qth' = QReturn(qth, t, nullopt)
  /\ UNCHANGED <<deque_, closed_, cv_, q_next, pushed, popped, at_close,
                 capturev, utilv>>

\* push: cv_.notify_one() wakes one of the threads waiting, if any.
QPushNotify(t) ==
  /\ qth[t].pc = "push_notify"
  /\ IF cv_ = {}
     THEN qth' = QReturn(qth, t, nullopt) /\ cv_' = cv_
     ELSE \E w \in cv_ :
            /\ qth' = [QReturn(qth, t, nullopt) EXCEPT ![w].pc = "ready"]
            /\ cv_' = cv_ \ {w}
  /\ UNCHANGED <<deque_, closed_, q_next, pushed, popped, at_close, capturev, utilv>>

\* T pop()
QPop(t) ==
  /\ qth[t].pc = "idle"
  /\ QPopBody(QCall(t, "pop"), t, "pop", FALSE)
  /\ UNCHANGED <<closed_, q_next, pushed, at_close, capturev, utilv>>

\* std::optional<T> pop(timeout)
QPopTimeout(t) ==
  /\ qth[t].pc = "idle"
  /\ QPopBody(QCall(t, "pop_timeout"), t, "pop_timeout", FALSE)
  /\ UNCHANGED <<closed_, q_next, pushed, at_close, capturev, utilv>>

\* A timed wait that gives up when its timeout has expired without
\* evaluating the predicate again.
QRecheckGiveUp(t) ==
  /\ qth[t].pc = "ready"
  /\ IF qth[t].expired
     THEN /\ qth' = QReturn(qth, t, nullopt)
          /\ UNCHANGED <<deque_, popped, cv_>>
     ELSE QPopBody(qth, t, qth[t].op, FALSE)
  /\ UNCHANGED <<closed_, q_next, pushed, at_close, capturev, utilv>>

\* A thread that was woken takes mutex_ again and evaluates the predicate.
QRecheck(t) ==
  /\ qth[t].pc = "ready"
  /\ QPopBody(qth, t, qth[t].op, qth[t].expired)
  /\ UNCHANGED <<closed_, q_next, pushed, at_close, capturev, utilv>>

\* A wait on a condition variable may end without a notification.
QSpurious(t) ==
  /\ t \in cv_
  /\ cv_' = cv_ \ {t}
  /\ qth' = [qth EXCEPT ![t].pc = "ready"]
  /\ UNCHANGED <<deque_, closed_, q_next, pushed, popped, at_close, capturev, utilv>>

\* The timeout of wait_for expires: the wait ends and the predicate is
\* evaluated a last time.
QTimeout(t) ==
  /\ t \in cv_
  /\ qth[t].op = "pop_timeout"
  /\ cv_' = cv_ \ {t}
  /\ qth' = [qth EXCEPT ![t].pc = "ready", ![t].expired = TRUE]
  /\ UNCHANGED <<deque_, closed_, q_next, pushed, popped, at_close, capturev, utilv>>

\* std::optional<T> try_pop()
QTryPop(t) ==
  /\ qth[t].pc = "idle"
  /\ LET q == QCall(t, "try_pop") IN
     IF deque_ = <<>>
     THEN /\ qth' = QReturn(q, t, nullopt)
          /\ UNCHANGED <<deque_, popped>>
     ELSE /\ qth' = QReturn(q, t, <<Head(deque_)>>)
          /\ deque_' = pop_front(deque_)
          /\ popped' = Append(popped, Head(deque_))
  /\ UNCHANGED <<closed_, cv_, q_next, pushed, at_close, capturev, utilv>>

\* close() up to the unlock.
QClose(t) ==
  /\ qth[t].pc = "idle"
  /\ closed_' = TRUE
  /\ at_close' = IF closed_ THEN at_close ELSE popped
  /\ qth' = [QCall(t, "close") EXCEPT ![t].pc = "close_notify"]
  /\ UNCHANGED <<deque_, cv_, q_next, pushed, popped, capturev, utilv>>

\* A close that wakes one waiting thread only.
QCloseNotifyOne(t) ==
  /\ qth[t].pc = "close_notify"
  /\ IF cv_ = {}
     THEN qth' = QReturn(qth, t, nullopt) /\ cv_' = cv_
     ELSE \E w \in cv_ :
            /\ qth' = [QReturn(qth, t, nullopt) EXCEPT ![w].pc = "ready"]
            /\ cv_' = cv_ \ {w}
  /\ UNCHANGED <<deque_, closed_, q_next, pushed, popped, at_close, capturev, utilv>>

\* close: cv_.notify_all() wakes every thread waiting.
QCloseNotify(t) ==
  /\ qth[t].pc = "close_notify"
  /\ qth' = [w \in QThreads |->
               IF w = t THEN QIdle
               ELSE IF w \in cv_ THEN [qth[w] EXCEPT !.pc = "ready"]
               ELSE qth[w]]
  /\ cv_' = {}
  /\ UNCHANGED <<deque_, closed_, q_next, pushed, popped, at_close, capturev, utilv>>

\* The steps a thread takes without waiting for another thread.
QContinue(t) ==
  \/ QPushNotify(t)
  \/ QCloseNotify(t)
  \/ QRecheck(t)

QThread(t) ==
  \/ QPush(t)
  \/ QPop(t)
  \/ QPopTimeout(t)
  \/ QTryPop(t)
  \/ QClose(t)
  \/ QSpurious(t)
  \/ QTimeout(t)
  \/ QContinue(t)

NextQueue == \E t \in QThreads : QThread(t)

SpecQueue == InitQueue /\ [][NextQueue]_vars

\* Scheduling: a thread that has a step to take without waiting takes it.
\* Nothing promises a spurious wake-up, and a timeout may be arbitrarily
\* long.
FairSpecQueue == SpecQueue /\ \A t \in QThreads : WF_vars(QContinue(t))

\* ------------------------------------------------------------------------
\* Screenshots of any region
\* ------------------------------------------------------------------------
\* FrameTap(RHuge) on backend b: the constructors store the region; the
\* X11 one also converts it to int for the capture area.
InitHuge(b) ==
  /\ QueueInit /\ NoUtil
  /\ backend = b
  /\ InitFacade
  /\ be_callback = FALSE /\ cur = 0 /\ th = [s \in Slots |-> NoThread]
  /\ paused = FALSE /\ region = RHuge
  /\ IF b = "x11"
     THEN /\ cap \in {compute_capture_area(region, c) :
                        c \in IntRects(region)}
          /\ use_shm \in BOOLEAN
     ELSE /\ cap = [x |-> 0, y |-> 0, w |-> 0, h |-> 0]
          /\ use_shm = FALSE
  /\ shm = NoShm
  /\ pw_loop = 0 /\ loop_run = [l \in LoopIds |-> FALSE]
  /\ last_frame_time = 0 /\ portal_open = FALSE /\ fmt_set = FALSE
  /\ mutex = 0

\* The rectangles a caller passes to screenshot(), RHuge among them.
ShotInputs == ShotRegions \cup {RHuge}

\* A program that constructs a FrameTap and only takes screenshots.
InitShot == Init \/ \E b \in {"x11", "wayland", "windows"} : InitHuge(b)

NextShot == \E r \in ShotInputs : FtScreenshot(r)

SpecShot == InitShot /\ [][NextShot]_vars

\* ------------------------------------------------------------------------
\* The helpers called on their own
\* ------------------------------------------------------------------------
\* The widths and heights a caller passes to checked_rgba_size: the small
\* ones, the two around the square root of SIZE_MAX + 1, the two around
\* SIZE_MAX / 4, and SIZE_MAX itself.
Dims ==
  (0 .. MaxDim) \cup
  {2 ^ (SizeBits \div 2 - 1), 2 ^ (SizeBits \div 2),
   SIZE_MAX \div 4, SIZE_MAX \div 4 + 1, SIZE_MAX}

\* CaptureError::what() of the error checked_rgba_size raises.
OverflowMessage ==
  "Image dimensions too large: overflow in pixel buffer allocation"

\* A program about to call checked_rgba_size(width, height).
InitCheckedSize ==
  \E w \in Dims, h \in Dims :
    util = [fn |-> "checked_rgba_size", width |-> w, height |-> h,
            done |-> FALSE, ret |-> 0, what |-> ""]

\* The call: its return value, or Throw and the message of the error.
CheckedSizeCall ==
  /\ util.fn = "checked_rgba_size" /\ ~util.done
  /\ LET r == checked_rgba_size(util.width, util.height)
     IN util' = [util EXCEPT !.done = TRUE, !.ret = r,
                             !.what = IF r = Throw THEN OverflowMessage
                                      ELSE ""]
  /\ UNCHANGED <<qv, capturev, xlib>>

\* Pixel buffers of MaxPixels pixels, four bytes each: every buffer of the
\* two extreme byte values, and one whose bytes are all different.
Bytes == {0, 255}
BufLen == MaxPixels * 4
Ramp == [i \in 1 .. BufLen |-> i]
Zeroes == [i \in 1 .. BufLen |-> 0]
Buffers == [1 .. BufLen -> Bytes] \cup {Ramp}

\* The loop of a conversion that ignores the temporary: both channels end
\* up with the old value of channel 2.
RECURSIVE overwrite_loop(_, _, _)
overwrite_loop(buf, i, end) ==
  IF i < end
  THEN overwrite_loop([buf EXCEPT ![i + 1] = buf[i + 3]], i + 4, end)
  ELSE buf

bgra_to_rgba_no_tmp(buf, pixel_count) ==
  overwrite_loop(buf, 0, pixel_count * 4)

\* The loop of the in-place bgra_to_rgba from byte i (counted from 0; the
\* sequence is indexed from 1) up to byte end.
RECURSIVE swap_loop(_, _, _)
swap_loop(buf, i, end) ==
  IF i < end
  THEN LET tmp == buf[i + 1]
       IN swap_loop([buf EXCEPT ![i + 1] = buf[i + 3], ![i + 3] = tmp],
                    i + 4, end)
  ELSE buf

\* A conversion that ignores pixel_count and converts the whole buffer.
bgra_to_rgba_whole(buf, pixel_count) == swap_loop(buf, 0, Len(buf))

\* bgra_to_rgba(uint8_t *buf, size_t pixel_count)
bgra_to_rgba(buf, pixel_count) == swap_loop(buf, 0, pixel_count * 4)

\* A loop that copies the four bytes in their order.
RECURSIVE copy_loop(_, _, _)
copy_loop(mem, i, end) ==
  IF i < end
  THEN copy_loop([mem EXCEPT !.dst[i + 1] = mem.src[i + 1],
                             !.dst[i + 2] = mem.src[i + 2],
                             !.dst[i + 3] = mem.src[i + 3],
                             !.dst[i + 4] = mem.src[i + 4]], i + 4, end)
  ELSE mem

bgra_to_rgba_plain_copy(src, dst, pixel_count) ==
  copy_loop([src |-> src, dst |-> dst], 0, pixel_count * 4)

\* The loop of the two-buffer bgra_to_rgba; mem holds both arrays.
RECURSIVE convert_loop(_, _, _)
convert_loop(mem, i, end) ==
  IF i < end
  THEN convert_loop([mem EXCEPT !.dst[i + 1] = mem.src[i + 3],
                                !.dst[i + 2] = mem.src[i + 2],
                                !.dst[i + 3] = mem.src[i + 1],
                                !.dst[i + 4] = mem.src[i + 4]], i + 4, end)
  ELSE mem

\* bgra_to_rgba(const uint8_t *src, uint8_t *dst, size_t pixel_count), for
\* two arrays that do not overlap: both arrays after the call.
bgra_to_rgba_to(src, dst, pixel_count) ==
  convert_loop([src |-> src, dst |-> dst], 0, pixel_count * 4)

\* A program about to call the in-place bgra_to_rgba on a buffer that holds
\* at least pixel_count pixels; in is the buffer as it was handed over.
InitSwap ==
  \E b \in Buffers, n \in 0 .. MaxPixels :
    util = [fn |-> "bgra_to_rgba", in |-> b, buf |-> b, pixel_count |-> n,
            calls |-> 0]

\* bgra_to_rgba(buf, pixel_count), called once and then once more.
SwapCall ==
  /\ util.fn = "bgra_to_rgba" /\ util.calls < 2
  /\ util' = [util EXCEPT !.buf = bgra_to_rgba(util.buf, util.pixel_count),
                          !.calls = @ + 1]
  /\ UNCHANGED <<qv, capturev, xlib>>

\* A program about to convert pixel_count pixels of src into a destination
\* array: once with one call (into dst), once pixel by pixel (into one).
InitConvert ==
  \E s \in Buffers, d \in {Zeroes, Ramp}, n \in 0 .. MaxPixels :
    util = [fn |-> "bgra_to_rgba_to", in |-> s, src |-> s, dst |-> d,
            one |-> d, pixel_count |-> n, done |-> FALSE, k |-> 0]

\* bgra_to_rgba(src, dst, pixel_count)
ConvertCall ==
  /\ util.fn = "bgra_to_rgba_to" /\ ~util.done
  /\ LET mem == bgra_to_rgba_to(util.src, util.dst, util.pixel_count)
     IN util' = [util EXCEPT !.src = mem.src, !.dst = mem.dst,
                             !.done = TRUE]
  /\ UNCHANGED <<qv, capturev, xlib>>

\* bgra_to_rgba(src + 4 * k, one + 4 * k, 1) for the next pixel k.
ConvertOne ==
  /\ util.fn = "bgra_to_rgba_to" /\ util.k < util.pixel_count
  /\ LET lo == 4 * util.k + 1
         hi == 4 * util.k + 4
         mem == bgra_to_rgba_to(SubSeq(util.src, lo, hi),
                                SubSeq(util.one, lo, hi), 1)
     IN util' = [util EXCEPT
                   !.src = SubSeq(@, 1, lo - 1) \o mem.src
                           \o SubSeq(@, hi + 1, Len(@)),
                   !.one = SubSeq(@, 1, lo - 1) \o mem.dst
                           \o SubSeq(@, hi + 1, Len(@)),
                   !.k = @ + 1]
  /\ UNCHANGED <<qv, capturev, xlib>>

\* The environment is the set of variables that are set; a set variable
\* may hold any string, the empty one included.
EnvVars == {"WAYLAND_DISPLAY", "DISPLAY"}

\* std::getenv(name) != nullptr
has_wayland(env) == "WAYLAND_DISPLAY" \in env
has_x11(env) == "DISPLAY" \in env

\* NO_DISPLAY_MSG, cut at the names it holds.
NO_DISPLAY_MSG ==
  <<"No display server found. Set $", "WAYLAND_DISPLAY", " or $", "DISPLAY",
    ". Run from within a graphical session (GNOME, KDE, Sway, X11, etc.).">>

\* The overloads of FrameTap::FrameTap, make_backend and
\* make_linux_backend, by the argument they take.
Overloads == {"none", "Rect", "Monitor", "Window"}

\* What a factory call gives: the backend class whose constructor it runs
\* with the overload's argument, or "none" and the raised error's message.
Built(class, arg) == [ctor |-> class, arg |-> arg, what |-> <<>>]
Raised(msg) == [ctor |-> "none", arg |-> "none", what |-> msg]

\* A dispatch that asks for X11 first.
make_linux_backend_x11_first(env, arg) ==
  IF has_x11(env) THEN Built("X11Backend", arg)
  ELSE IF has_wayland(env) THEN Built("WaylandBackend", arg)
  ELSE Raised(NO_DISPLAY_MSG)

\* make_linux_backend(), make_linux_backend(Rect),
\* make_linux_backend(Monitor), make_linux_backend(Window)
make_linux_backend(env, arg) ==
  IF has_wayland(env) THEN Built("WaylandBackend", arg)
  ELSE IF has_x11(env) THEN Built("X11Backend", arg)
  ELSE Raised(NO_DISPLAY_MSG)

\* make_backend(...) on Linux
make_backend(env, arg) == make_linux_backend(env, arg)

\* A program about to construct a FrameTap in some environment.
InitFactory ==
  \E env \in SUBSET EnvVars, arg \in Overloads :
    util = [fn |-> "make_backend", env |-> env, arg |-> arg,
            done |-> FALSE, ret |-> Raised(<<>>)]

\* FrameTap::FrameTap(...) : impl_(make_backend(...))
FactoryCall ==
  /\ util.fn = "make_backend" /\ ~util.done
  /\ util' = [util EXCEPT !.done = TRUE,
                          !.ret = make_backend(util.env, util.arg)]
  /\ UNCHANGED <<qv, capturev, xlib>>

InitUtil ==
  /\ QueueInit /\ NoCapture /\ xlib = XIdle
  /\ (InitCheckedSize \/ InitSwap \/ InitConvert \/ InitFactory)

NextUtil ==
  \/ CheckedSizeCall
  \/ SwapCall
  \/ ConvertCall
  \/ ConvertOne
  \/ FactoryCall

SpecUtil == InitUtil /\ [][NextUtil]_vars

\* ------------------------------------------------------------------------
\* X protocol errors
\* ------------------------------------------------------------------------
\* XSetErrorHandler replaces the one handler of the process.  A request
\* that the server rejects makes Xlib call the handler in effect on the
\* requesting thread; the default handler exits, a handler that returns
\* lets the call return its failure value (0, False or NULL).
BadWindow == 3
BadMatch == 8

\* An installation that does nothing.
install_nothing(x) == x

\* install_x11_error_handler(): call_once on g_error_handler_installed
install_x11_error_handler(x) ==
  IF x.installed THEN x
  ELSE [x EXCEPT !.installed = TRUE, !.handler = "x11_error_handler"]

\* x11_err::install(): call_once on its own static flag
x11_err_install(x) ==
  IF x.err_installed THEN x
  ELSE [x EXCEPT !.err_installed = TRUE, !.handler = "x11_err::handler"]

\* Xlib dispatching an error on thread t: x11_error_handler stores the
\* code in g_x11_error_code, x11_err::handler in x11_err::g_code.
XError(x, t, code) ==
  IF x.handler = "default" THEN [x EXCEPT !.alive = FALSE]
  ELSE IF x.handler = "x11_error_handler"
  THEN [x EXCEPT !.g_x11_error_code[t] = code]
  ELSE [x EXCEPT !.g_code[t] = code]

\* Thread t issues a request and waits for its reply; fails says that the
\* server answers with the error code.
XRequest(x, t, fails, code) ==
  LET x1 == [x EXCEPT !.bare = @ \/ x.handler = "default"]
  IN IF fails THEN XError(x1, t, code) ELSE x1

\* How a call that issued a request ended: the process exited inside the
\* default handler, or the call went on to end as out.
XEnd(x, op, out, missing, raised, noted) ==
  [x EXCEPT !.op = op, !.out = IF x.alive THEN out ELSE "exit",
            !.missing = missing, !.raised = raised,
            !.noted = x.alive /\ noted]

\* X11Backend::X11Backend -> open_display() -> compute_capture_area() for
\* the root window or for a window id that exists or not; the display can
\* be opened.
XConstruct(target, exists) ==
  /\ xlib.alive /\ xlib.be = "none"
  /\ target = "root" => exists
  /\ LET x1 == install_x11_error_handler(xlib)
         x2 == XRequest(x1, "caller", FALSE, 0)
         x3 == [x2 EXCEPT !.g_x11_error_code["caller"] = 0]
         x4 == IF target = "window"
               THEN XRequest(x3, "caller", ~exists, BadWindow)
               ELSE x2
         ok == exists /\ x4.g_x11_error_code["caller"] = 0
         x5 == [x4 EXCEPT !.be = IF x4.alive /\ (target = "root" \/ ok)
                                 THEN target ELSE "none"]
     IN xlib' = XEnd(x5, "construct",
                     IF target = "root" \/ ok THEN "backend"
                     ELSE "CaptureError",
                     ~exists, ~exists,
                     x4.g_x11_error_code["caller"] # 0)
  /\ UNCHANGED <<qv, capturev, util>>

\* X11Backend::~X11Backend
XDestroy ==
  /\ xlib.alive /\ xlib.be # "none"
  /\ xlib' = [xlib EXCEPT !.be = "none", !.op = "destroy", !.out = "none",
                          !.missing = FALSE, !.raised = FALSE,
                          !.noted = FALSE]
  /\ UNCHANGED <<qv, capturev, util>>

\* X11Backend::screenshot -> x11_take_screenshot on the caller's thread;
\* exists: the target window is still there, fails: the server rejects the
\* image request.
XScreenshot(exists, fails) ==
  /\ xlib.alive /\ xlib.be # "none"
  /\ xlib.be = "root" => exists
  /\ ~exists => fails
  /\ LET x1 == x11_err_install(xlib)
         x2 == [x1 EXCEPT !.g_code["caller"] = 0]
         x3 == IF xlib.be = "window"
               THEN XRequest(x2, "caller", ~exists, BadWindow)
               ELSE x1
         attrs == exists /\ x3.g_code["caller"] = 0
         x4 == [x3 EXCEPT !.g_code["caller"] = 0]
         x5 == IF attrs /\ x3.alive
               THEN XRequest(x4, "caller", fails, BadMatch)
               ELSE x3
         img == attrs /\ ~fails /\ x5.g_code["caller"] = 0
     IN xlib' = XEnd(x5, "screenshot",
                     IF img THEN "image" ELSE "CaptureError",
                     ~exists, fails, x5.g_code["caller"] # 0)
  /\ UNCHANGED <<qv, capturev, util>>

\* X11Backend::capture_frame on the capture_loop thread: the slot is
\* cleared, the image is requested, and after XSync the slot is checked.
XCaptureFrame(exists, fails) ==
  /\ xlib.alive /\ xlib.be # "none"
  /\ xlib.be = "root" => exists
  /\ ~exists => fails
  /\ LET x1 == [xlib EXCEPT !.g_x11_error_code["stream"] = 0]
         x2 == XRequest(x1, "stream", fails, IF exists THEN BadMatch
                                             ELSE BadWindow)
         img == ~fails /\ x2.g_x11_error_code["stream"] = 0
     IN xlib' = XEnd(x2, "capture_frame",
                     IF img THEN "image" ELSE "empty",
                     ~exists, fails, x2.g_x11_error_code["stream"] # 0)
  /\ UNCHANGED <<qv, capturev, util>>

\* x11_enumerate_monitors(): Xinerama queries on a display of its own.
XEnumerateMonitors ==
  /\ xlib.alive
  /\ xlib' = XEnd(XRequest(xlib, "caller", FALSE, 0),
                  "enumerate_monitors", "list", FALSE, FALSE, FALSE)
  /\ UNCHANGED <<qv, capturev, util>>

\* x11_enumerate_windows(): reads _NET_CLIENT_LIST of the root window and
\* queries every listed window; vanished: one of them has been destroyed
\* since the list was read.
XEnumerateWindows(vanished) ==
  /\ xlib.alive
  /\ LET x1 == XRequest(xlib, "caller", FALSE, 0)
         x2 == XRequest(x1, "caller", vanished, BadWindow)
     IN xlib' = XEnd(x2, "enumerate_windows", "list", vanished, vanished,
                     FALSE)
  /\ UNCHANGED <<qv, capturev, util>>

InitXlib == QueueInit /\ NoCapture /\ NoUtil

NextXlib ==
  \/ \E target \in {"root", "window"}, exists \in BOOLEAN :
       XConstruct(target, exists)
  \/ XDestroy
  \/ \E exists \in BOOLEAN, fails \in BOOLEAN : XScreenshot(exists, fails)
  \/ \E exists \in BOOLEAN, fails \in BOOLEAN : XCaptureFrame(exists, fails)
  \/ XEnumerateMonitors
  \/ \E vanished \in BOOLEAN : XEnumerateWindows(vanished)

SpecXlib == InitXlib /\ [][NextXlib]_vars

\* ------------------------------------------------------------------------
\* The ScreenCast portal handshake
\* ------------------------------------------------------------------------
\* open_screencast_session talks to the portal over the session bus.  Its
\* position, the subscriptions it holds and what it has sent and received
\* are kept in util; log is the order of the events on the bus.
PortalCalls == <<"CreateSession", "SelectSources", "Start",
                 "OpenPipeWireRemote">>

\* Response status codes: 0 success, 1 cancelled, 99 unreadable status.
Statuses == {0, 1, 99}

\* Node ids a Start response can carry; 0 is "no streams array".
NodeIds == {0, 7}

\* The deadline of wait_for_response, in waits of sd_bus_wait.
MaxWait == 2

Ev(kind, step, status) == [ev |-> kind, step |-> step, status |-> status]

InitPortalCall ==
  \E capture_window \in BOOLEAN :
    util = [fn |-> "open_screencast_session", window |-> capture_window,
            pc |-> "open", step |-> 1, bus |-> FALSE, slots |-> {},
            session_handle |-> FALSE, pw_node |-> 0, log |-> <<>>,
            waited |-> 0, out |-> "none"]

InitPortal == QueueInit /\ NoCapture /\ xlib = XIdle /\ InitPortalCall

InPortal(pc) == util.fn = "open_screencast_session" /\ util.pc = pc

\* throw CaptureError(...): ~BusGuard unrefs the bus.
PortalThrow(u) == [u EXCEPT !.pc = "done", !.out = "throw", !.bus = FALSE]

\* sd_bus_open_user
PortalOpenBus(ok) ==
  /\ InPortal("open")
  /\ util' = IF ok THEN [util EXCEPT !.bus = TRUE, !.pc = "subscribe"]
             ELSE PortalThrow(util)
  /\ UNCHANGED <<qv, capturev, xlib>>

\* sd_bus_match_signal(bus, &slotN, ..., request_pathN, ..., on_response,
\* &ctxN): its result is tested for CreateSession only.
subscribe(u, ok) ==
  IF ok
  THEN [u EXCEPT !.slots = @ \cup {u.step}, !.pc = "call",
                 !.log = Append(@, Ev("subscribe", u.step, 0))]
  ELSE IF u.step = 1 THEN PortalThrow(u)
  ELSE [u EXCEPT !.pc = "call"]

PortalSubscribe(ok) ==
  /\ InPortal("subscribe")
  /\ util' = subscribe(util, ok)
  /\ UNCHANGED <<qv, capturev, xlib>>

\* sd_bus_call_method(..., "CreateSession" | "SelectSources" | "Start", ...)
PortalCall(ok) ==
  /\ InPortal("call")
  /\ util' = IF ok
             THEN [util EXCEPT !.pc = "wait", !.waited = 0,
                     !.log = Append(@, Ev(PortalCalls[util.step],
                                          util.step, 0))]
             ELSE PortalThrow(util)
  /\ UNCHANGED <<qv, capturev, xlib>>

\* The tests after wait_for_response and sd_bus_slot_unref.
after_response(u, status, handle, node) ==
  IF status # 0 THEN PortalThrow(u)
  ELSE IF u.step = 1 /\ ~handle THEN PortalThrow(u)
  ELSE IF u.step = 3 /\ node = 0 THEN PortalThrow(u)
  ELSE [u EXCEPT !.session_handle = IF u.step = 1 THEN handle ELSE @,
                 !.pw_node = IF u.step = 3 THEN node ELSE @,
                 !.step = @ + 1,
                 !.pc = IF u.step = 3 THEN "remote" ELSE "subscribe"]

\* wait_for_response: the Response signal reaches on_response only through
\* a live subscription; handle is "the results carry a session handle".
PortalResponse(status, handle, node) ==
  /\ InPortal("wait")
  /\ util.step \in util.slots
  /\ util' = after_response(
               [util EXCEPT !.slots = @ \ {util.step},
                            !.log = Append(@, Ev("response", util.step,
                                                 status))],
               status, handle, node)
  /\ UNCHANGED <<qv, capturev, xlib>>

\* wait_for_response: nothing to process, sd_bus_wait for up to a second.
PortalWait ==
  /\ InPortal("wait") /\ util.waited < MaxWait
  /\ util' = [util EXCEPT !.waited = @ + 1]
  /\ UNCHANGED <<qv, capturev, xlib>>

\* wait_for_response: the deadline has passed ("Portal response timed
\* out"), or sd_bus_process fails.
PortalWaitFails(timeout) ==
  /\ InPortal("wait")
  /\ timeout => util.waited = MaxWait
  /\ util' = PortalThrow(util)
  /\ UNCHANGED <<qv, capturev, xlib>>

\* OpenPipeWireRemote, sd_bus_message_read of the descriptor, dup.
PortalRemote(call_ok, fd_ok, dup_ok) ==
  /\ InPortal("remote")
  /\ util' =
       IF ~call_ok THEN PortalThrow(util)
       ELSE LET u == [util EXCEPT
                        !.log = Append(@, Ev(PortalCalls[4], 4, 0))]
            IN  IF fd_ok /\ dup_ok
                THEN [u EXCEPT !.pc = "done", !.out = "session"]
                ELSE PortalThrow(u)
  /\ UNCHANGED <<qv, capturev, xlib>>

NextPortal ==
  \/ \E ok \in BOOLEAN : PortalOpenBus(ok)
  \/ \E ok \in BOOLEAN : PortalSubscribe(ok)
  \/ \E ok \in BOOLEAN : PortalCall(ok)
  \/ \E status \in Statuses, handle \in BOOLEAN, node \in NodeIds :
       PortalResponse(status, handle, node)
  \/ PortalWait
  \/ \E timeout \in BOOLEAN : PortalWaitFails(timeout)
  \/ \E call_ok, fd_ok, dup_ok \in BOOLEAN :
       PortalRemote(call_ok, fd_ok, dup_ok)

SpecPortal == InitPortal /\ [][NextPortal]_vars

\* ------------------------------------------------------------------------
\* The macOS sample handler
\* ------------------------------------------------------------------------
\* MacOSBackend while its stream delivers samples of ScreenW x ScreenH
\* pixels on the framework's serial queue.  util holds region_, paused_,
\* should_stop_ and what the last on_sample_buffer did.
NoSample ==
  [kind |-> "none", region |-> RUnset, image |-> EmptyImage, inside |-> TRUE]

InitMacCall ==
  util = [fn |-> "on_sample_buffer", region |-> RUnset, paused |-> FALSE,
          should_stop |-> FALSE, out |-> NoSample]

InitMac == QueueInit /\ NoCapture /\ xlib = XIdle /\ InitMacCall

InMac == util.fn = "on_sample_buffer"

\* static_cast<size_t>(double): the value when it is representable;
\* undefined otherwise, and the builds give zero or an all-ones pattern.
to_size(d) == IF 0 <= d /\ d <= SIZE_MAX THEN {d} ELSE {0, SIZE_MAX}

\* size_t arithmetic
SizeWrap(n) == n % (SIZE_MAX + 1)

\* The crop of on_sample_buffer for a region converted to size_t
\* (sx, sy); all arithmetic is size_t arithmetic.
mac_crop(width, height, r, sx, sy) ==
  LET set == r.width > 0 /\ r.height > 0
      out_w == IF set THEN r.width ELSE width
      out_h == IF set THEN r.height ELSE height
      src_x == IF set THEN sx ELSE 0
      src_y == IF set THEN sy ELSE 0
      buf_size == SizeWrap(out_w * out_h * 4)
      \* first byte of the source and destination row, and one row's bytes
      src_off(row) == SizeWrap((row + src_y) * width + src_x) * 4
      dst_off(row) == SizeWrap(row * out_w * 4)
      row_len == out_w * 4
  IN [image |-> [width |-> out_w, height |-> out_h, len |-> buf_size],
      inside |-> \A row \in 0..(out_h - 1) :
                   /\ src_off(row) + row_len <= width * height * 4
                   /\ dst_off(row) + row_len <= buf_size]

\* set_region: region_ = region
MacSetRegion(r) ==
  /\ InMac
  /\ util' = [util EXCEPT !.region = r]
  /\ UNCHANGED <<qv, capturev, xlib>>

\* pause / resume, under mutex_
MacPause(p) ==
  /\ InMac /\ util.paused # p
  /\ util' = [util EXCEPT !.paused = p]
  /\ UNCHANGED <<qv, capturev, xlib>>

\* stop() sets should_stop_; start_stream clears it.
MacStopFlag(v) ==
  /\ InMac /\ util.should_stop # v
  /\ util' = [util EXCEPT !.should_stop = v]
  /\ UNCHANGED <<qv, capturev, xlib>>

\* on_sample_buffer.  buf: "null" = no pixel buffer, "nolock" = the base
\* address could not be locked, "ok".  A row copy that leaves the locked
\* buffer or the output vector is undefined: the frame is delivered with
\* whatever was read, or the process dies.
MacSample(buf) ==
  /\ InMac
  /\ IF util.paused \/ util.should_stop \/ buf # "ok"
     THEN util' = [util EXCEPT !.out = [NoSample EXCEPT !.kind = "skipped"]]
     ELSE \E sx \in to_size(util.region.x), sy \in to_size(util.region.y) :
            LET c == mac_crop(ScreenW, ScreenH, util.region, sx, sy)
            IN \E kind \in {"delivered"}
                             \cup (IF c.inside THEN {} ELSE {"crashed"}) :
                 util' = [util EXCEPT !.out = [kind |-> kind,
                                               region |-> util.region,
                                               image |-> c.image,
                                               inside |-> c.inside]]
  /\ UNCHANGED <<qv, capturev, xlib>>

NextMac ==
  \/ \E r \in ShotInputs : MacSetRegion(r)
  \/ \E p \in BOOLEAN : MacPause(p)
  \/ \E v \in BOOLEAN : MacStopFlag(v)
  \/ \E buf \in {"null", "nolock", "ok"} : MacSample(buf)

SpecMac == InitMac /\ [][NextMac]_vars

\* ------------------------------------------------------------------------
\* Properties
\* ------------------------------------------------------------------------
Max(a, b) == IF a > b THEN a ELSE b

\* A step in which some producer thread invokes the frame callback.
CallbackFires ==
  \E s \in Slots :
    th[s].pc = "deliver" /\ th'[s].pc # "deliver" /\ be_callback

RegionSet(r) == r.width > 0 /\ r.height > 0

\* Width and height of the intersection of r with the source.
IntersectW(r) == Min(r.x + r.width, ScreenW) - Max(r.x, 0)

IntersectH(r) == Min(r.y + r.height, ScreenH) - Max(r.y, 0)

\* img has the dimensions of r clamped to the source (the whole source for
\* an unset r); no image has them when the intersection is empty.
ShowsRegion(img, r) ==
  IF RegionSet(r)
  THEN /\ IntersectW(r) > 0 /\ IntersectH(r) > 0
       /\ img.width = IntersectW(r) /\ img.height = IntersectH(r)
  ELSE img.width = ScreenW /\ img.height = ScreenH

SizeMatches(img) == img.len = img.width * img.height * 4

\* The backend state a facade call may touch.
backendv == <<be_callback, cur, th, paused, region, cap, use_shm, shm,
              pw_loop, loop_run, last_frame_time, portal_open, fmt_set,
              mutex>>

\* C1: once stop() has returned, no step invokes the frame callback until
\* start() is called again, whatever the producer was doing when stop() was
\* called.
C1_NoCallbackAfterStop == [][stop_returned > 0 => ~CallbackFires]_vars

\* C1 witness: stop() has returned on a session that delivered a frame.
C1_StoppedAfterDelivery ==
  stop_returned > 0 /\ be_callback /\ pause_cbs = 1 /\ c_pc = "idle"

\* C2: a stop() call that has been issued returns, from every streaming
\* state it can be issued in.
C2_StopTerminates ==
  (c_pc \in {"stop_quit", "stop_join"}) ~> (c_pc = "idle")

\* C3 as stated: between the return of pause() and the call of resume() no
\* frame callback fires.
C3_NoCallbackWhilePaused == pause_cbs <= 0

\* C3 amended: between the return of pause() and the call of resume() at
\* most one frame callback fires, the frame whose iteration had passed its
\* pause check before pause() returned.
C3_AtMostInFlightFrame == pause_cbs <= 1

\* C3 witness: the in-flight frame was delivered after pause() returned.
C3_InFlightDelivered == pause_cbs = 1 /\ paused /\ ft_started

\* C4: a resume() call issued while paused returns.
C4_ResumeReturns == (c_pc = "resume_wait") ~> (c_pc = "idle")

\* C5: every frame handed to the callback has a non-negative duration.
C5_DurationNonNegative ==
  \A s \in Slots : th[s].pc = "deliver" => FrameOf(s).duration >= 0

\* C6: every frame handed to the callback was cropped with a rectangle some
\* caller passed in whole, never with a mix of two rectangles.
C6_RegionNotTorn ==
  \A s \in Slots : th[s].pc = "deliver" => th[s].crop \in Regions

\* C7: every frame handed to the callback has the dimensions of a region
\* that was current during its capture, clamped to the source.
C7_RegionTakesEffect ==
  \A s \in Slots :
    th[s].pc = "deliver" => \E r \in th[s].regs : ShowsRegion(th[s].img, r)

\* C8: every image screenshot() returns and every image handed to the
\* callback holds exactly width * height * 4 bytes, none when a dimension
\* is 0.
C8_BufferSizeMatches ==
  /\ shot.valid => SizeMatches(shot.img)
  /\ \A s \in Slots : th[s].pc = "deliver" => SizeMatches(th[s].img)

\* C8 witness: screenshot() returned a cropped, non-empty image.
C8_CroppedShotReturned ==
  shot.valid /\ shot.img.len > 0 /\ shot.img.width < ScreenW

\* C9: an image captured for a rectangle is empty or has exactly the
\* dimensions of the rectangle's intersection with the source; a rectangle
\* fully outside the source never yields pixels.
C9_CropIsIntersection ==
  /\ shot.valid => (shot.img = EmptyImage \/ ShowsRegion(shot.img, shot.r))
  /\ \A s \in Slots :
       th[s].pc = "deliver" => ShowsRegion(th[s].img, th[s].crop)

\* C10: start() and start_async() without a callback raise CaptureError,
\* leave the backend untouched and the started flag as it was (an instance
\* that was not started stays not started), and stop() on an instance that
\* is not started leaves the backend untouched.
C10_StartWithoutCallbackThrows ==
  [][/\ ((FtStart \/ FtStartAsync) /\ ~ft_callback)
          => (threw' = "start" /\ ft_started' = ft_started
              /\ UNCHANGED backendv)
     /\ (FtStop /\ ~ft_started) => UNCHANGED backendv]_vars

\* C10 witness: a start without a callback has thrown on an instance that
\* is not started.
C10_ThrewNotStarted ==
  threw = "start" /\ ~ft_callback /\ ~ft_started /\ cur = 0

\* C11: a stop() on an instance that was never started, and a stop() that
\* follows a stop(), raises nothing, does not wait for a thread, leaves every
\* backend handle as it was and leaves the instance not started with no
\* producer thread, the state a single stop() leaves.
C11_StopIsIdempotent ==
  [][(FtStop /\ (stop_returned > 0 \/ (~ft_started /\ cur = 0)))
       => /\ threw' = "none"
          /\ c_pc' = "idle"
          /\ ~ft_started' /\ cur' = 0
          /\ UNCHANGED <<ft_callback, backendv>>]_vars

\* C11 witness: a second stop() has returned after a session that ran, and
\* the instance can be started again.
C11_StoppedTwice ==
  /\ stop_returned = 2 /\ be_callback /\ ft_callback
  /\ c_pc = "idle" /\ ~ft_started /\ cur = 0 /\ threw = "none"

\* C12: a destructor running on an instance that owns a producer thread
\* returns, and when it has returned the thread has been joined, no
\* producer is left to fire a callback and every handle the backend held
\* has been released.
C12_DestructorStops ==
  (c_pc \in {"dtor_quit", "dtor_join"})
    ~> (/\ c_pc = "gone" /\ cur = 0
        /\ \A s \in Slots : th[s] = NoThread
        /\ shm = NoShm /\ pw_loop = 0 /\ ~portal_open)

\* C13: a start() that follows a stop() and succeeds leaves the stream
\* running, is_paused() false, whatever state the stream was stopped in.
C13_StartAfterStopRuns ==
  [][((FtStart \/ FtStartAsync) /\ stop_returned > 0 /\ ft_started')
       => ~paused']_vars

\* C14: a backend's start() given an empty callback raises CaptureError and
\* creates no producer thread.
C14_EmptyCallbackFails ==
  [][BeStart(FALSE) => (threw' = "start" /\ UNCHANGED <<cur, th>>)]_vars

\* C15: the first frame a streaming session hands to the callback carries
\* duration 0, in the first session and in every session started after a
\* stop().
C15_FirstFrameDurationZero ==
  \A s \in Slots :
    (th[s].pc = "deliver" /\ th[s].first /\ be_callback)
      => FrameOf(s).duration = 0

\* The elements of a sequence.
Range(q) == {q[i] : i \in 1 .. Len(q)}

NoRepeat(q) == \A i, j \in 1 .. Len(q) : q[i] = q[j] => i = j

\* C16: on a queue that is not closed, every value a push() stored is
\* either still in the queue or has been returned by exactly one call of
\* the pop family: none is returned twice, none is lost, and nothing is
\* returned that was not pushed.
C16_ExactlyOnce ==
  ~closed_ =>
    /\ NoRepeat(popped) /\ NoRepeat(deque_)
    /\ Range(popped) \cap Range(deque_) = {}
    /\ Range(popped) \cup Range(deque_) = 1 .. (q_next - 1)

\* C16 witness: two pushed values have been returned to two threads while a
\* third value is still queued on the open queue.
C16_TwoReturnedOneQueued ==
  /\ ~closed_ /\ Len(popped) = 2 /\ Len(deque_) = 1
  /\ \E t, u \in QThreads :
       t # u /\ qth[t].ret = <<popped[1]>> /\ qth[u].ret = <<popped[2]>>

\* C17: values leave the queue in the order their pushes took effect: the
\* values returned so far, followed by the values still queued, are the
\* values pushed, in push order.
C17_FifoOrder == pushed = popped \o deque_

\* C17 witness: three values have been pushed and all three returned, the
\* third before the push that stored it has notified.
C17_ThreeReturnedInOrder ==
  /\ Len(popped) = 3 /\ deque_ = <<>>
  /\ \E t \in QThreads : qth[t].ret = <<popped[3]>>
  /\ \E t \in QThreads : qth[t].pc = "push_notify"

\* C18: every thread that is blocked in pop() or pop(timeout) when close()
\* has set closed_ returns from its call, however many are blocked.
C18_CloseUnblocksAll ==
  \A t \in QThreads :
    (closed_ /\ qth[t].pc = "wait") ~> (qth[t].pc = "idle")

\* C18 witness: close() has set closed_ and is about to notify while a
\* pop() and a pop(timeout) are both blocked.
C18_TwoBlockedAtClose ==
  /\ closed_ /\ Cardinality(cv_) = 2
  /\ \E t \in QThreads : qth[t].pc = "close_notify"
  /\ \E t, u \in cv_ : qth[t].op = "pop" /\ qth[u].op = "pop_timeout"

\* A step in which thread t evaluates the predicate of pop().
PopStep(t) == QPop(t) \/ (QRecheck(t) /\ qth[t].op = "pop")

\* C19: once closed_ is set the queue only drains: a push() leaves the
\* contents as they are, nothing is stored any more, and a pop() returns at
\* once, the front element while there is one and T{} from then on; the
\* elements returned after close() are those queued when it ran, in order.
C19_ClosedQueueDrains ==
  [][closed_ =>
       /\ pushed' = pushed
       /\ deque_' = deque_ \/ (deque_ # <<>> /\ deque_' = Tail(deque_))
       /\ \A t \in QThreads :
            /\ QPush(t) => deque_' = deque_
            /\ PopStep(t) =>
                 /\ qth'[t].pc = "idle"
                 /\ qth'[t].ret = IF deque_ = <<>> THEN <<Default>>
                                  ELSE <<Head(deque_)>>
       /\ popped' \o deque_' = pushed
       /\ SubSeq(popped', 1, Len(at_close')) = at_close']_vars

\* C19 witness: elements that were queued when close() ran have been
\* returned since, the queue is drained, and a pop() has returned T{}.
C19_DrainedThenDefault ==
  /\ closed_ /\ Len(popped) > Len(at_close) /\ deque_ = <<>>
  /\ \E t \in QThreads : qth[t].ret = <<Default>>

\* C20: a pop() on an open queue returns only with an element that was
\* queued, and blocks while the queue is empty; and no wake-up is lost: a
\* thread does not stay blocked while an element is queued, so consumers
\* blocked on the open queue all return once as many values are pushed.
C20_NoLostWakeup ==
  /\ [][\A t \in QThreads :
          (PopStep(t) /\ ~closed_) =>
            IF deque_ = <<>>
            THEN qth'[t].pc = "wait" /\ t \in cv_'
            ELSE qth'[t].pc = "idle" /\ qth'[t].ret = <<Head(deque_)>>]_vars
  /\ \A t \in QThreads :
       (qth[t].pc = "wait" /\ deque_ # <<>>)
         ~> (qth[t].pc # "wait" \/ deque_ = <<>>)

\* C20 witness: two threads that were blocked in pop() on the open queue
\* have both been woken, and the two values pushed since are queued for
\* them, every notification made.
C20_TwoWokenTwoQueued ==
  /\ ~closed_ /\ Len(deque_) = 2 /\ popped = <<>>
  /\ \A t \in QThreads : qth[t].pc # "push_notify"
  /\ \E t, u \in QThreads :
       /\ t # u
       /\ qth[t].pc = "ready" /\ qth[t].op = "pop"
       /\ qth[u].pc = "ready" /\ qth[u].op = "pop"

\* A step in which thread t evaluates the predicate of pop(timeout).
TimedPopStep(t) ==
  QPopTimeout(t) \/ (QRecheck(t) /\ qth[t].op = "pop_timeout")

\* C21: pop(timeout) removes and returns the front element whenever the
\* queue holds one at the moment it stops waiting, also when the timeout
\* has expired; it returns std::nullopt, removing nothing, exactly when the
\* queue is empty and the timeout has expired or the queue is closed; and
\* it goes on waiting, as pop() does, on an open empty queue.
C21_TimedPopAbsent ==
  [][\A t \in QThreads :
       TimedPopStep(t) =>
         IF deque_ # <<>>
         THEN /\ qth'[t].pc = "idle" /\ qth'[t].ret = <<Head(deque_)>>
              /\ deque_' = Tail(deque_)
         ELSE /\ deque_' = deque_
              /\ IF closed_ \/ qth[t].expired
                 THEN qth'[t].pc = "idle" /\ qth'[t].ret = nullopt
                 ELSE qth'[t].pc = "wait"]_vars

\* C21 witness: the timeout of a pop(timeout) has expired while a value
\* was being pushed, and the call is about to look at the queue, which
\* holds the value.
C21_ExpiredWithElement ==
  \E t \in QThreads :
    /\ qth[t].pc = "ready" /\ qth[t].op = "pop_timeout" /\ qth[t].expired
    /\ deque_ # <<>> /\ ~closed_

\* C22: checked_rgba_size(w, h) returns exactly w * h * 4 whenever that
\* product fits the native unsigned size type (0 when w or h is 0), and
\* raises the capture error naming "pixel buffer allocation" exactly when
\* w * h * 4 exceeds SIZE_MAX; it never returns a wrapped-around value.
C22_CheckedSizeExact ==
  (util.fn = "checked_rgba_size" /\ util.done) =>
    LET product == util.width * util.height * 4
    IN /\ (product <= SIZE_MAX) => (util.ret = product /\ util.what = "")
       /\ (util.width = 0 \/ util.height = 0) => util.ret = 0
       /\ (product > SIZE_MAX) <=>
            (util.ret = Throw /\ util.what = OverflowMessage)

\* A call whose width * height fits size_t while the product with 4 does
\* not, so that unchecked arithmetic would have wrapped to 0: it raised.
C22_WrappingProductRaised ==
  /\ util.fn = "checked_rgba_size" /\ util.done
  /\ util.width * util.height <= SIZE_MAX
  /\ (util.width * util.height * 4) % (SIZE_MAX + 1) = 0
  /\ util.width > 0 /\ util.height > 0
  /\ util.ret = Throw

\* The byte the in-place conversion of the first n pixels of b leaves at
\* index i: channels 0 and 2 of those pixels exchanged, all else as it was.
Swapped(b, n, i) ==
  LET pixel == (i - 1) \div 4
      channel == (i - 1) % 4
  IN IF pixel < n /\ channel = 0 THEN b[i + 2]
     ELSE IF pixel < n /\ channel = 2 THEN b[i - 2]
     ELSE b[i]

\* C26: the in-place conversion exchanges bytes 0 and 2 of each of the
\* first n pixels and leaves bytes 1 and 3 of those pixels and every byte
\* beyond pixel n unchanged; with n = 0 the buffer is unchanged.
C26_SwapFirstPixelsOnly ==
  (util.fn = "bgra_to_rgba" /\ util.calls = 1) =>
    /\ Len(util.buf) = Len(util.in)
    /\ \A i \in 1 .. Len(util.in) :
         util.buf[i] = Swapped(util.in, util.pixel_count, i)
    /\ (util.pixel_count = 0) => util.buf = util.in

\* One call converted some but not all pixels of the buffer whose bytes are
\* all different.
C26_PartialRampSwapped ==
  /\ util.fn = "bgra_to_rgba" /\ util.calls = 1
  /\ util.in = Ramp
  /\ util.pixel_count > 0 /\ util.pixel_count < MaxPixels
  /\ util.buf # util.in

\* C27: applying the in-place conversion twice with the same pixel count
\* to any buffer yields the original bytes.
C27_DoubleSwapIdentity ==
  (util.fn = "bgra_to_rgba" /\ util.calls = 2) => util.buf = util.in

\* Two calls on every pixel of the buffer whose bytes are all different.
C27_RampSwappedTwice ==
  /\ util.fn = "bgra_to_rgba" /\ util.calls = 2
  /\ util.in = Ramp /\ util.pixel_count = MaxPixels

\* C28: the two-buffer conversion leaves the source unchanged and writes,
\* per pixel, dst[0..3] = src[2], src[1], src[0], src[3], which are the
\* bytes the in-place conversion makes of a copy of the source; an n-pixel
\* call produces what n consecutive single-pixel calls produce.
C28_ConvertMatchesSwap ==
  (util.fn = "bgra_to_rgba_to") =>
    /\ util.src = util.in
    /\ util.done =>
         /\ \A p \in 0 .. util.pixel_count - 1 :
              SubSeq(util.dst, 4 * p + 1, 4 * p + 4) =
                <<util.in[4 * p + 3], util.in[4 * p + 2],
                  util.in[4 * p + 1], util.in[4 * p + 4]>>
         /\ SubSeq(util.dst, 1, 4 * util.pixel_count) =
              SubSeq(bgra_to_rgba(util.in, util.pixel_count),
                     1, 4 * util.pixel_count)
         /\ (util.k = util.pixel_count) => util.one = util.dst

\* The buffer whose bytes are all different went through one call for all
\* its pixels and through one call per pixel.
C28_RampBothWays ==
  /\ util.fn = "bgra_to_rgba_to" /\ util.done
  /\ util.in = Ramp /\ util.pixel_count = MaxPixels
  /\ util.k = util.pixel_count
  /\ util.dst # util.in

\* The strings of a message.
Names(msg) == {msg[i] : i \in 1 .. Len(msg)}

\* C25: for every constructor overload, with WAYLAND_DISPLAY set the
\* factory builds a Wayland backend (also when DISPLAY is set too);
\* otherwise with DISPLAY set it builds an X11 backend; with neither set
\* it raises a capture error that names both variables and runs no
\* backend constructor.
C25_BackendSelection ==
  (util.fn = "make_backend" /\ util.done) =>
    IF "WAYLAND_DISPLAY" \in util.env
    THEN util.ret = Built("WaylandBackend", util.arg)
    ELSE IF "DISPLAY" \in util.env
    THEN util.ret = Built("X11Backend", util.arg)
    ELSE /\ util.ret.ctor = "none"
         /\ EnvVars \subseteq Names(util.ret.what)

\* Both variables were set and the Window overload built a Wayland backend.
C25_BothSetBuiltWayland ==
  /\ util.fn = "make_backend" /\ util.done
  /\ util.env = EnvVars /\ util.arg = "Window"
  /\ util.ret.ctor = "WaylandBackend"

\* The library calls that address the capture target.
CaptureOps == {"construct", "screenshot", "capture_frame"}

CustomHandlers ==
  {h \in {"x11_error_handler", "x11_err::handler"} :
     \/ h = "x11_error_handler" /\ xlib.installed
     \/ h = "x11_err::handler" /\ xlib.err_installed}

\* C29: exactly one custom X error handler is in effect process-wide, so
\* an X error raised during a construction, a screenshot or a streaming
\* read is recorded in the slot that operation checks; an error during a
\* streaming read results in a skipped frame, also after a screenshot.
C29_ErrorReachesCheckedSlot ==
  /\ Cardinality(CustomHandlers) <= 1
  /\ (xlib.op \in CaptureOps /\ xlib.raised /\ xlib.alive) => xlib.noted
  /\ (xlib.op = "capture_frame" /\ xlib.raised) => xlib.out = "empty"

\* C30: the custom X error handler is installed before the library issues
\* any X request on any entry point, so no failing request reaches the
\* default handler, which terminates the process.
C30_HandlerBeforeRequests ==
  ~xlib.bare /\ xlib.alive

\* width * height * 4 of the rectangle exceeds SIZE_MAX.
Oversized(r) ==
  r.width > 0 /\ r.height > 0 /\ r.width * r.height * 4 > SIZE_MAX

\* C23: a screenshot of a region whose width * height * 4 exceeds SIZE_MAX
\* (width SIZE_MAX / 4 + 1, height 1) fails with a capture error instead
\* of returning an image.
C23_HugeRegionRejected ==
  [][\A r \in ShotInputs :
       (/\ FtScreenshot(r)
        /\ Oversized(IF r.width > 0 /\ r.height > 0 THEN r ELSE region))
       => threw' = "screenshot"]_vars

\* C31: when a stop() that ends a streaming session returns, the backend
\* holds none of the native handles it opened for streaming: the X11
\* shared-memory image and segment, the PipeWire loop, context and stream,
\* the portal session.
C31_StopReleasesHandles ==
  [][(ft_started /\ ~ft_started') =>
       (~shm'.attached /\ pw_loop' = 0 /\ ~portal_open')]_vars

\* C32: while paused, each invocation of the Wayland per-frame handler
\* dequeues the offered buffer and re-queues it without invoking the
\* callback.
C32_PausedHandlerRequeues ==
  [][\A s \in Slots :
       (WlProcessBegin(s) /\ paused) =>
         (th'[s].pc = "iterate" /\ th'[s].buf = "requeued")]_vars

\* Thread s is inside on_process past the point where the pixels have been
\* copied out, or has returned from it.
WlPastCopy(s) ==
  th[s].pc \in {"iterate", "proc_now", "proc_dur", "deliver", "done"}

\* C33: every buffer the Wayland per-frame handler dequeues is re-queued
\* exactly once before the handler returns, on every path, and always
\* before the frame callback is invoked.
C33_BufferRequeuedOnce ==
  backend = "wayland" =>
    \A s \in Slots :
      /\ th[s].buf # "misqueued"
      /\ WlPastCopy(s) => th[s].buf \in {"none", "requeued"}
      /\ th[s].pc = "deliver" => th[s].buf = "requeued"

\* A handler stands at the callback with its buffer already re-queued.
C33_RequeuedBeforeCallback ==
  /\ backend = "wayland"
  /\ \E s \in Slots :
       th[s].pc = "deliver" /\ th[s].buf = "requeued" /\ be_callback

\* The positions in the log of events of one kind for one step.
LogAt(kind, step) ==
  {i \in 1..Len(util.log) :
     util.log[i].ev = kind /\ util.log[i].step = step}

\* The requests sent so far, in the order sent.
CallsSent ==
  LET sent == SelectSeq(util.log,
                        LAMBDA e : e.ev \notin {"subscribe", "response"})
  IN  [i \in 1..Len(sent) |-> sent[i].ev]

\* C34: the portal handshake issues its calls in the order CreateSession,
\* SelectSources, Start, OpenPipeWireRemote; for each of the first three
\* the Response subscription is registered before the call is sent; the
\* next call is sent only after the previous response arrived with status
\* 0; a session is returned only if all steps succeeded with a non-empty
\* session handle and a non-zero node id.
C34_PortalHandshakeOrder ==
  util.fn = "open_screencast_session" =>
    /\ CallsSent = SubSeq(PortalCalls, 1, Len(CallsSent))
    /\ \A n \in 1..3 : \A i \in LogAt(PortalCalls[n], n) :
         \E j \in LogAt("subscribe", n) : j < i
    /\ \A n \in 2..4 : \A i \in LogAt(PortalCalls[n], n) :
         \E j \in LogAt("response", n - 1) :
           j < i /\ util.log[j].status = 0
    /\ util.out = "session" =>
         /\ Len(CallsSent) = 4
         /\ util.session_handle /\ util.pw_node # 0

\* C35: if the Wayland backend's start() fails with a capture error at any
\* setup step, every object acquired during that attempt has been released
\* when the error propagates: the backend holds no PipeWire loop that it
\* did not hold before the call.
C35_FailedStartLeavesNothing ==
  [][(backend = "wayland" /\ (FtStart \/ \E cb \in BOOLEAN : BeStart(cb))
        /\ threw' = "start") =>
       (pw_loop' = 0 \/ pw_loop' = pw_loop)]_vars

\* Thread s is between two iterations of dxgi_capture_loop, or past it.
WinBetweenFrames(s) ==
  th[s].pc \in {"top", "lock", "psleep", "acquire", "reinit", "done"}

\* C36: in the Windows duplication loop every acquired frame is released
\* exactly once before the next acquire, on every path; after access-lost
\* the duplication is re-initialised before any further acquire, and the
\* loop ends only on a stop request or when re-initialisation fails.
C36_FrameReleasedOnce ==
  backend = "windows" =>
    \A s \in Slots :
      /\ th[s].buf \notin {"double", "misreleased"}
      /\ WinBetweenFrames(s) => th[s].buf # "held"
      /\ th[s].pc \in {"acquire", "rd_guard"} => th[s].dup = "ready"
      /\ th[s].pc = "done" => (th[s].stop \/ th[s].dup = "none")

\* A loop that has delivered a frame is back at the top with the frame of
\* the iteration released.
C36_ReleasedAfterDelivery ==
  /\ backend = "windows"
  /\ \E s \in Slots :
       /\ th[s].pc = "top" /\ th[s].buf = "released"
       /\ ~th[s].first /\ th[s].dup = "ready"

\* The producer threads that exist and have not left their thread function.
Producers == {s \in Slots : th[s].pc \notin {"none", "done", "terminated"}}

\* C37: a streaming backend instance never has more than one producer
\* thread alive, whatever the sequence of facade calls.
C37_OneProducer == Cardinality(Producers) <= 1

\* C38: the backend's callback slot is written only while no producer is
\* running: a start() or start_async() that reaches the backend, and any
\* step that changes the slot, is taken with no producer thread alive.
C38_SlotWrittenWhileStopped ==
  [][(((FtStart \/ FtStartAsync) /\ ft_callback)
        \/ be_callback' # be_callback) => Producers = {}]_vars

\* C40: on X11, whenever the producer reads a frame through the
\* shared-memory image, that image was allocated for exactly the current
\* capture width and height and has not been reallocated or freed since the
\* capture began.
C40_ShmStableDuringCapture ==
  backend = "x11" =>
    \A s \in Slots :
      th[s].pc = "read" =>
        /\ th[s].buf = "shm"
        /\ shm.attached /\ shm.w = cap.w /\ shm.h = cap.h

\* The clamped intersection of region r with the frame, as the other
\* backends compute it: the whole frame when r is unset.
ClampedCrop(r) ==
  IF r.width > 0 /\ r.height > 0
  THEN win_crop(r) ELSE [w |-> ScreenW, h |-> ScreenH]

\* C39: the macOS sample handler crops with the clamp policy of the other
\* backends: the copied rows lie inside the locked buffer, the size
\* computation does not wrap, and a delivered image is the clamped
\* intersection of the region with the frame.
C39_MacCropClamped ==
  (util.fn = "on_sample_buffer"
     /\ util.out.kind \in {"delivered", "crashed"}) =>
    /\ util.out.kind = "delivered" /\ util.out.inside
    /\ util.out.image.width = ClampedCrop(util.out.region).w
    /\ util.out.image.height = ClampedCrop(util.out.region).h
    /\ util.out.image.len
         = util.out.image.width * util.out.image.height * 4

TypeOK ==
  /\ backend \in {"x11", "wayland", "windows"}
  /\ cur \in 0..2
  /\ clock \in 0..MaxClock
  /\ mutex \in {0} \cup Slots
  /\ pw_loop \in {0} \cup LoopIds
====
